---------------------------- MODULE Spec2Model ----------------------------
(***************************************************************************)
(* The system logger (syslogger) of src/backend/postmaster/syslogger.c:    *)
(* a child of the postmaster that drains the stderr pipe into a rotating   *)
(* family of log files.                                                    *)
(*                                                                         *)
(* Spec       the running collector (SysLoggerMain's main loop, with the   *)
(*            WIN32 data-transfer thread when WIN32 holds), its pipe,      *)
(*            its log files, the clock and the signals it is sent.         *)
(* RotationSpec  the same under repeated reloads, with no other failure    *)
(*            than that of the fopen of a rotation.                        *)
(* ShutdownSpec  the same without reloads, with the scheduling the         *)
(*            collector's progress relies on.                              *)
(* StartSpec  the start-up protocol: SysLogger_Start in the postmaster and *)
(*            the initialisation of the collector, over descriptor tables. *)
(*                                                                         *)
(* Pipe data and the collector's own diagnostics are modelled in blocks    *)
(* of BlockBytes bytes: block n is the n-th block written into the pipe.   *)
(***************************************************************************)
EXTENDS Integers, Sequences, FiniteSets, TLC

(***************************************************************************)
(* Bounds of the model.                                                    *)
(***************************************************************************)
MaxBlocks == 3
MaxWriters == 1
MaxFaults == 1
MaxSighups == 1
MaxReloads == 2
MaxMinutes == 1
StartTime == 1
BlockBytes == 512
MaxStarts == 3
MaxFd == 6
MaxFileno == 36

(***************************************************************************)
(* Program constants.                                                      *)
(***************************************************************************)
LOGBUFFER_SIZE == 1024
BYTES_PER_KB == 1024
SECS_PER_MINUTE == 60
PostmasterPid == 123
MyProcPid == 456
MAXPGPATH == 1024

\* What ereport(LOG, ...) of the collector appends to the log file.
MSG_SELECT_FAILED == -1
MSG_READ_FAILED == -2
MSG_WRITE_FAILED == -3
MSG_OPEN_FAILED == -4
MSG_DISABLING == -5
MSG_SHUTTING_DOWN == -6

DataDir == "/data"

\* The values postgresql.conf may hold when it is reread.
LogDirectories == {"pg_log", "/log"}
FilenamePrefixes == {"postgresql-"}
\* log_rotation_age (minutes) and log_rotation_size (kilobytes): rotation by
\* age only, or by size only.
RotationSettings == {[age |-> 1, size |-> 0], [age |-> 0, size |-> 1]}
ConfigFiles ==
    {[dir |-> d, age |-> r.age, size |-> r.size, prefix |-> p] :
        d \in LogDirectories, r \in RotationSettings, p \in FilenamePrefixes}

TerminationSignals ==
    {"SIGINT", "SIGTERM", "SIGQUIT", "SIGALRM", "SIGPIPE", "SIGUSR1", "SIGUSR2"}
Signals == {"SIGHUP"} \cup TerminationSignals

FdExhaustion == {"ENFILE", "EMFILE"}
OpenErrnos == FdExhaustion \cup {"EACCES"}

VARIABLES
    WIN32,                  \* the build: TRUE with the data-transfer thread
    horizon,                \* the last minute the wall clock reaches in this run
    now,                    \* the latest reading of the wall clock
    pipe,                   \* blocks written into syslogPipe, not yet read
    nwritten,               \* number of blocks ever written into the pipe
    writers,                \* processes holding the pipe's write end
    faults,                 \* I/O faults that were reported so far
    sighups_left,           \* SIGHUPs the environment may still send
    disk,                   \* the log files, in the order of their creation
    Log_directory, Log_RotationAge, Log_RotationSize, Log_filename_prefix,
    currentLogDir,
    last_rotation_time,
    pipe_eof_seen,
    got_SIGHUP,
    syslogFile,             \* path of the file the open handle writes to
    pc,                     \* position of the main thread
    rotation_requested,
    fh, rot_now, saveerrno, \* locals of logfile_rotate
    exit_code,              \* argument of proc_exit, -1 while running
    sysfileSection,         \* owner of the critical section
    logbuffer,              \* the blocks of the latest pipe read
    wpc, wdone,             \* pipeThread: position, blocks fwrite has written
    itersAfterEof,          \* history: loop iterations begun after pipe EOF
    reopened,               \* history: a rotation reopened an older log file
    EXEC_BACKEND,           \* the build: TRUE when children are fork+exec'ed
    Redirect_stderr,        \* the GUC redirect_stderr
    fds,                    \* per process: what each descriptor refers to
    syslogPipe,             \* per process: the pipe's read [0] and write [1] end
    redirection_done,       \* per process
    syslogFile_fd,          \* per process: descriptor under syslogFile, or NoFile
    av,                     \* the argument list the exec'ed collector is given
    spc,                    \* position of the postmaster in SysLogger_Start
    cpc,                    \* position of the collector in its initialisation
    starts,                 \* calls of SysLogger_Start so far
    returned                \* what the latest call of SysLogger_Start returned

pipeVars == <<pipe, nwritten, writers>>
sigVars == <<sighups_left, got_SIGHUP>>
gucVars == <<Log_directory, Log_RotationAge, Log_RotationSize, Log_filename_prefix>>
rotVars == <<fh, rot_now, saveerrno>>
threadVars == <<logbuffer, wpc, wdone>>
mainVars == <<currentLogDir, last_rotation_time, rotation_requested, exit_code>>
\* The state of the start-up protocol between postmaster and collector.
startVars ==
    <<EXEC_BACKEND, Redirect_stderr, fds, syslogPipe, redirection_done,
      syslogFile_fd, av, spc, cpc, starts, returned>>
\* The state of the running collector.
loopVars ==
    <<now, pipe, nwritten, writers, faults, sighups_left, disk, Log_directory,
      Log_RotationAge, Log_RotationSize, Log_filename_prefix, currentLogDir,
      last_rotation_time, pipe_eof_seen, got_SIGHUP, syslogFile, pc,
      rotation_requested, fh, rot_now, saveerrno, exit_code, sysfileSection,
      logbuffer, wpc, wdone, itersAfterEof, reopened>>
vars ==
    <<WIN32, horizon, now, pipe, nwritten, writers, faults, sighups_left, disk,
      Log_directory, Log_RotationAge, Log_RotationSize, Log_filename_prefix,
      currentLogDir, last_rotation_time, pipe_eof_seen, got_SIGHUP, syslogFile,
      pc, rotation_requested, fh, rot_now, saveerrno, exit_code,
      sysfileSection, logbuffer, wpc, wdone, itersAfterEof, reopened,
      EXEC_BACKEND, Redirect_stderr, fds, syslogPipe, redirection_done,
      syslogFile_fd, av, spc, cpc, starts, returned>>

Min(a, b) == IF a < b THEN a ELSE b

(***************************************************************************)
(* Files.                                                                  *)
(***************************************************************************)
FileExists(d, path) == \E i \in 1..Len(d) : d[i].path = path
FileIndex(d, path) == CHOOSE i \in 1..Len(d) : d[i].path = path
FileData(d, path) == d[FileIndex(d, path)].data

\* Faulty variant, fopen(path, "w"): truncates the file when it exists.
fopen_truncate(d, path) ==
    IF FileExists(d, path)
    THEN [d EXCEPT ![FileIndex(d, path)].data = <<>>]
    ELSE Append(d, [path |-> path, data |-> <<>>])

\* fopen(path, "a"): creates the file when absent, never truncates.
fopen_append(d, path) ==
    IF FileExists(d, path) THEN d ELSE Append(d, [path |-> path, data |-> <<>>])

\* fwrite on a handle opened for append.
fwrite(d, path, blocks) ==
    [d EXCEPT ![FileIndex(d, path)].data = @ \o blocks]

\* ftell on a handle opened for append: the size of the file in bytes.
ftell(d, path) == Len(FileData(d, path)) * BlockBytes

\* ereport(LOG, ...) in the syslogger: elog.c hands the message to
\* write_syslogger_file, which appends it to the current log file.
ereport(d, file, msg) == fwrite(d, file, <<msg>>)

(***************************************************************************)
(* logfile_getname                                                         *)
(***************************************************************************)
Digit(n) == SubSeq("0123456789", n + 1, n + 1)
TwoDigits(n) == Digit((n \div 10) % 10) \o Digit(n % 10)

\* "%05u": at least five decimal digits, zero padded.
RECURSIVE Decimal(_)
Decimal(n) == IF n < 10 THEN Digit(n) ELSE Decimal(n \div 10) \o Digit(n % 10)
RECURSIVE ZeroPad(_, _)
ZeroPad(s, width) == IF Len(s) >= width THEN s ELSE ZeroPad("0" \o s, width)

\* The time zone of the server.  The model's clock counts the seconds of
\* 2004-10-31 UTC; the zone is two hours ahead of UTC until daylight saving
\* ends, at dst_end, and one hour ahead from then on.
TimeZone == [dst_end |-> 3600, dst_offset |-> 7200, std_offset |-> 3600]

\* pg_localtime(&timestamp): the local time, in seconds of the day.
pg_localtime(t) ==
    t + (IF t < TimeZone.dst_end THEN TimeZone.dst_offset
         ELSE TimeZone.std_offset)

\* Faulty variant: "%Y-%m-%d_%H%M", the seconds left out.
stamptext_NoSeconds(t) ==
    "2004-10-31_" \o TwoDigits((pg_localtime(t) \div 3600) % 24)
        \o TwoDigits((pg_localtime(t) \div 60) % 60)

\* pg_strftime("%Y-%m-%d_%H%M%S", pg_localtime(t)) within the day the
\* model's clock runs in.
stamptext(t) ==
    "2004-10-31_" \o TwoDigits((pg_localtime(t) \div 3600) % 24)
        \o TwoDigits((pg_localtime(t) \div 60) % 60)
        \o TwoDigits(pg_localtime(t) % 60)

is_absolute_path(p) == Len(p) > 0 /\ SubSeq(p, 1, 1) = "/"

\* snprintf(buf, size, ...): at most size - 1 characters of the output.
snprintf(size, str) == SubSeq(str, 1, Min(Len(str), size - 1))

\* "%05u" of (unsigned int) PostmasterPid
pid5(pid) == ZeroPad(Decimal(pid), 5)

\* "%s/%s%05u_%s.log" resp. "%s/%s/%s%05u_%s.log" with their arguments.
logfile_format(timestamp, dir, prefix) ==
    IF is_absolute_path(dir)
    THEN dir \o "/" \o prefix \o pid5(PostmasterPid) \o "_"
             \o stamptext(timestamp) \o ".log"
    ELSE DataDir \o "/" \o dir \o "/" \o prefix \o pid5(PostmasterPid) \o "_"
             \o stamptext(timestamp) \o ".log"

\* Faulty variant: the name is always put under the data directory.
logfile_getname_AlwaysRelative(timestamp, dir, prefix) ==
    snprintf(MAXPGPATH,
             DataDir \o "/" \o dir \o "/" \o prefix \o pid5(PostmasterPid)
                 \o "_" \o stamptext(timestamp) \o ".log")

logfile_getname(timestamp, dir, prefix) ==
    snprintf(MAXPGPATH, logfile_format(timestamp, dir, prefix))

(***************************************************************************)
(* Signals                                                                 *)
(***************************************************************************)
\* Faulty variant: SIGTERM is left at its default disposition.
SignalDisposition_TermDefault(sig) ==
    CASE sig = "SIGHUP" -> "sigHupHandler"
      [] sig \in TerminationSignals \ {"SIGTERM"} -> "SIG_IGN"
      [] OTHER -> "SIG_DFL"

\* The dispositions SysLoggerMain installs.
SignalDisposition(sig) ==
    CASE sig = "SIGHUP" -> "sigHupHandler"
      [] sig \in TerminationSignals -> "SIG_IGN"
      [] OTHER -> "SIG_DFL"

Running == pc \notin {"none", "done", "killed"}

\* The globals of the collector other than the latch.
handlerFrame ==
    <<disk, gucVars, currentLogDir, last_rotation_time, pipe_eof_seen, syslogFile>>

\* Faulty variant: the handler rereads the configuration itself.
sigHupHandler_Rereads ==
    /\ got_SIGHUP' = TRUE
    /\ \E cfg \in ConfigFiles :
        /\ Log_directory' = cfg.dir
        /\ Log_RotationAge' = cfg.age
        /\ Log_RotationSize' = cfg.size
        /\ Log_filename_prefix' = cfg.prefix
    /\ UNCHANGED <<pc, exit_code, disk, currentLogDir, last_rotation_time,
                   pipe_eof_seen, syslogFile>>

\* SIGHUP: set flag to reload config file
sigHupHandler ==
    /\ got_SIGHUP' = TRUE
    /\ UNCHANGED <<pc, exit_code, handlerFrame>>

\* Delivery of a signal to the collector: its handler runs, or it is ignored,
\* or (default disposition of these signals) the process is terminated.
DeliverSignal(sig) ==
    /\ Running
    /\ sig = "SIGHUP" => sighups_left > 0
    /\ sighups_left' = IF sig = "SIGHUP" THEN sighups_left - 1
                       ELSE sighups_left
    /\ CASE SignalDisposition(sig) = "sigHupHandler" -> sigHupHandler
         [] SignalDisposition(sig) = "SIG_IGN" ->
                UNCHANGED <<got_SIGHUP, pc, exit_code, handlerFrame>>
         [] OTHER ->
                /\ pc' = "killed"
                /\ UNCHANGED <<got_SIGHUP, exit_code, handlerFrame>>
    /\ UNCHANGED <<WIN32, horizon, now, pipeVars, faults, rotation_requested, rotVars,
                   sysfileSection, threadVars, itersAfterEof, reopened,
                   startVars>>

(***************************************************************************)
(* The environment: the processes writing into the pipe.                   *)
(***************************************************************************)
WriterWrite ==
    /\ Running
    /\ writers > 0
    /\ nwritten < MaxBlocks
    /\ nwritten' = nwritten + 1
    /\ pipe' = Append(pipe, nwritten + 1)
    /\ UNCHANGED <<WIN32, horizon, now, writers, faults, sigVars, disk, gucVars,
                   mainVars, pipe_eof_seen, syslogFile, pc, rotVars,
                   sysfileSection, threadVars, itersAfterEof, reopened, startVars>>

WriterClose ==
    /\ Running
    /\ writers > 0
    /\ writers' = writers - 1
    /\ UNCHANGED <<WIN32, horizon, now, pipe, nwritten, faults, sigVars, disk, gucVars,
                   mainVars, pipe_eof_seen, syslogFile, pc, rotVars,
                   sysfileSection, threadVars, itersAfterEof, reopened, startVars>>

\* Faulty variant: after the report the rest of the buffer is written again.
write_syslogger_file_Retries(d, file, buffer, rc) ==
    IF rc # Len(buffer)
    THEN fwrite(ereport(fwrite(d, file, SubSeq(buffer, 1, rc)), file,
                        MSG_WRITE_FAILED),
                file, SubSeq(buffer, rc + 1, Len(buffer)))
    ELSE fwrite(d, file, buffer)

\* Faulty variant: the count handed to fwrite is one block short.
write_syslogger_file_OffByOne(d, file, buffer, rc) ==
    IF rc # Len(buffer)
    THEN ereport(fwrite(d, file, SubSeq(buffer, 1, rc)), file, MSG_WRITE_FAILED)
    ELSE fwrite(d, file, SubSeq(buffer, 1, Len(buffer) - 1))

(***************************************************************************)
(* write_syslogger_file, called by the main thread (no data-transfer       *)
(* thread): fwrite writes the first rc of the blocks; a short count is     *)
(* reported and nothing is retried.                                        *)
(***************************************************************************)
write_syslogger_file(d, file, buffer, rc) ==
    IF rc # Len(buffer)
    THEN ereport(fwrite(d, file, SubSeq(buffer, 1, rc)), file, MSG_WRITE_FAILED)
    ELSE fwrite(d, file, buffer)

\* Blocks one piperead / ReadFile into logbuffer can return.
MaxRead == LOGBUFFER_SIZE \div BlockBytes

\* The critical section is free for the calling thread to write a message.
CanReport == ~WIN32 \/ sysfileSection = "free"

(***************************************************************************)
(* SysLoggerMain: the main worker loop.                                    *)
(***************************************************************************)
\* bool rotation_requested = false; if (got_SIGHUP) got_SIGHUP = false;
MainTop ==
    /\ pc = "top"
    /\ rotation_requested' = FALSE
    /\ saveerrno' = "none"
    /\ logbuffer' = IF WIN32 THEN logbuffer ELSE <<>>
    /\ IF got_SIGHUP
       THEN got_SIGHUP' = FALSE /\ pc' = "reload"
       ELSE got_SIGHUP' = got_SIGHUP /\ pc' = "check"
    /\ itersAfterEof' = IF pipe_eof_seen THEN Min(itersAfterEof + 1, 2)
                        ELSE itersAfterEof
    /\ UNCHANGED <<WIN32, horizon, now, pipeVars, faults, sighups_left, disk, gucVars,
                   currentLogDir, last_rotation_time, exit_code, pipe_eof_seen,
                   syslogFile, fh, rot_now, sysfileSection, wpc, wdone,
                   reopened, startVars>>

\* ProcessConfigFile(PGC_SIGHUP), of the configuration system: the GUC
\* variables take the values postgresql.conf holds, here cfg.
ProcessConfigFile(cfg) ==
    /\ Log_directory' = cfg.dir
    /\ Log_RotationAge' = cfg.age
    /\ Log_RotationSize' = cfg.size
    /\ Log_filename_prefix' = cfg.prefix

\* Faulty variant: the reload does not reread the configuration file.
MainReload_NoReread ==
    /\ pc = "reload"
    /\ UNCHANGED <<gucVars, currentLogDir, rotation_requested>>
    /\ pc' = "check"
    /\ UNCHANGED <<WIN32, horizon, now, pipeVars, faults, sigVars, disk,
                   last_rotation_time, exit_code, pipe_eof_seen, syslogFile,
                   rotVars, sysfileSection, threadVars, itersAfterEof, reopened, startVars>>

\* Faulty variant: the latch is cleared after the reread, not before it.
MainReload_ClearsLatch ==
    /\ pc = "reload"
    /\ \E cfg \in ConfigFiles :
        /\ ProcessConfigFile(cfg)
        /\ IF cfg.dir # currentLogDir
           THEN currentLogDir' = cfg.dir /\ rotation_requested' = TRUE
           ELSE UNCHANGED <<currentLogDir, rotation_requested>>
    /\ got_SIGHUP' = FALSE
    /\ pc' = "check"
    /\ UNCHANGED <<WIN32, horizon, now, pipeVars, faults, sighups_left, disk,
                   last_rotation_time, exit_code, pipe_eof_seen, syslogFile,
                   rotVars, sysfileSection, threadVars, itersAfterEof, reopened, startVars>>

\* Faulty variant: a changed Log_directory is snapshotted, but no rotation
\* is requested.
MainReload_NoRequest ==
    /\ pc = "reload"
    /\ \E cfg \in ConfigFiles :
        /\ ProcessConfigFile(cfg)
        /\ currentLogDir' = cfg.dir
    /\ pc' = "check"
    /\ UNCHANGED <<WIN32, horizon, now, pipeVars, faults, sigVars, disk,
                   last_rotation_time, rotation_requested, exit_code,
                   pipe_eof_seen, syslogFile, rotVars, sysfileSection,
                   threadVars, itersAfterEof, reopened, startVars>>

\* ProcessConfigFile(PGC_SIGHUP) and the check of Log_directory.
MainReload ==
    /\ pc = "reload"
    /\ \E cfg \in ConfigFiles :
        /\ ProcessConfigFile(cfg)
        /\ IF cfg.dir # currentLogDir
           THEN currentLogDir' = cfg.dir /\ rotation_requested' = TRUE
           ELSE UNCHANGED <<currentLogDir, rotation_requested>>
    /\ pc' = "check"
    /\ UNCHANGED <<WIN32, horizon, now, pipeVars, faults, sigVars, disk,
                   last_rotation_time, exit_code, pipe_eof_seen, syslogFile,
                   rotVars, sysfileSection, threadVars, itersAfterEof, reopened, startVars>>

\* The instants the wall clock shows, in seconds, up to the minute horizon.
Instants ==
    {StartTime + m * SECS_PER_MINUTE + d : m \in 0..horizon, d \in {-1, 0}}
        \cap {t \in Int : t >= StartTime}

\* time(NULL): the wall clock does not run backwards between two readings.
ClockReadings == {t \in Instants : t >= now}

\* The age check is made (and the clock read) only when this holds.
AgeChecked ==
    ~rotation_requested /\ last_rotation_time # 0 /\ Log_RotationAge > 0

\* Faulty variant: elapsed_secs > Log_RotationAge * 60
AgeTrigger_Strict(t) ==
    t - last_rotation_time > Log_RotationAge * SECS_PER_MINUTE

\* Faulty variant: Log_RotationAge is taken for seconds.
AgeTrigger_Seconds(t) ==
    t - last_rotation_time >= Log_RotationAge

\* elapsed_secs >= Log_RotationAge * 60, at clock reading t
AgeTrigger(t) ==
    t - last_rotation_time >= Log_RotationAge * SECS_PER_MINUTE

\* Faulty variant: the size check without its Log_RotationSize > 0 guard.
SizeTrigger_NoGuard ==
    ftell(disk, syslogFile) >= Log_RotationSize * BYTES_PER_KB

\* ftell(syslogFile) >= Log_RotationSize * 1024L
SizeTrigger ==
    /\ Log_RotationSize > 0
    /\ ftell(disk, syslogFile) >= Log_RotationSize * BYTES_PER_KB

\* The age and size checks, each skipped once a rotation is requested.
MainCheck ==
    /\ pc = "check"
    /\ \E t \in ClockReadings :
        /\ now' = IF AgeChecked THEN t ELSE now
        /\ LET byAge == rotation_requested \/ (AgeChecked /\ AgeTrigger(t))
               bySize == byAge \/ SizeTrigger
           IN  /\ rotation_requested' = bySize
               /\ pc' = IF bySize THEN "rotate" ELSE "wait"
    /\ UNCHANGED <<WIN32, horizon, pipeVars, faults, sigVars, disk, gucVars,
                   currentLogDir, last_rotation_time, exit_code, pipe_eof_seen,
                   syslogFile, rotVars, sysfileSection, threadVars,
                   itersAfterEof, reopened, startVars>>

(***************************************************************************)
(* logfile_rotate                                                          *)
(***************************************************************************)
\* now = time(NULL); filename = logfile_getname(now); fopen(filename, "a")
\* succeeds.
RotateOpen ==
    /\ pc = "rotate"
    /\ \E t \in ClockReadings :
        LET filename == logfile_getname(t, Log_directory, Log_filename_prefix)
        IN  /\ now' = t
            /\ rot_now' = t
            /\ fh' = filename
            /\ disk' = fopen_append(disk, filename)
            /\ reopened' = (reopened \/ (FileExists(disk, filename)
                                            /\ filename # syslogFile))
    /\ pc' = "swap"
    /\ UNCHANGED <<WIN32, horizon, pipeVars, faults, sigVars, gucVars, mainVars,
                   pipe_eof_seen, syslogFile, saveerrno, sysfileSection,
                   threadVars, itersAfterEof, startVars>>

\* Faulty variant: only EMFILE is recognised as descriptor exhaustion.
DisablesRotation_OnlyEMFILE(errno) == errno # "EMFILE"

\* Whether a failed fopen makes logfile_rotate stop rotating.
DisablesRotation(errno) == errno \notin FdExhaustion

\* Faulty variant: the failed attempt counts as a rotation
\* (last_rotation_time = now).
RotateOpenFailed_StampsTime(errno) ==
    /\ pc = "rotate"
    /\ faults < MaxFaults
    /\ CanReport
    /\ \E t \in ClockReadings : now' = t /\ last_rotation_time' = t
    /\ faults' = faults + 1
    /\ saveerrno' = errno
    /\ IF DisablesRotation(errno)
       THEN /\ disk' = ereport(ereport(disk, syslogFile, MSG_OPEN_FAILED),
                               syslogFile, MSG_DISABLING)
            /\ Log_RotationAge' = 0
            /\ Log_RotationSize' = 0
       ELSE /\ disk' = ereport(disk, syslogFile, MSG_OPEN_FAILED)
            /\ UNCHANGED <<Log_RotationAge, Log_RotationSize>>
    /\ pc' = "wait"
    /\ UNCHANGED <<WIN32, horizon, pipeVars, sigVars, Log_directory,
                   Log_filename_prefix, currentLogDir, rotation_requested, exit_code, pipe_eof_seen, syslogFile,
                   fh, rot_now, sysfileSection, threadVars, itersAfterEof, reopened, startVars>>

\* fopen fails with errno: the failure is reported, and unless the errno is
\* ENFILE or EMFILE automatic rotation is disabled.
RotateOpenFailed(errno) ==
    /\ pc = "rotate"
    /\ faults < MaxFaults
    /\ CanReport
    /\ \E t \in ClockReadings : now' = t
    /\ faults' = faults + 1
    /\ saveerrno' = errno
    /\ IF DisablesRotation(errno)
       THEN /\ disk' = ereport(ereport(disk, syslogFile, MSG_OPEN_FAILED),
                               syslogFile, MSG_DISABLING)
            /\ Log_RotationAge' = 0
            /\ Log_RotationSize' = 0
       ELSE /\ disk' = ereport(disk, syslogFile, MSG_OPEN_FAILED)
            /\ UNCHANGED <<Log_RotationAge, Log_RotationSize>>
    /\ pc' = "wait"
    /\ UNCHANGED <<WIN32, horizon, pipeVars, sigVars, Log_directory,
                   Log_filename_prefix, mainVars, pipe_eof_seen, syslogFile,
                   fh, rot_now, sysfileSection, threadVars, itersAfterEof, reopened, startVars>>

\* Faulty variant: the main thread does not wait for the critical section.
RotateEnterCS_NoWait ==
    /\ pc = "swap"
    /\ WIN32
    /\ sysfileSection' = "main"
    /\ pc' = "locked"
    /\ UNCHANGED <<WIN32, horizon, now, pipeVars, faults, sigVars, disk, gucVars,
                   mainVars, pipe_eof_seen, syslogFile, rotVars, threadVars,
                   itersAfterEof, reopened, startVars>>

\* EnterCriticalSection(&sysfileSection), WIN32 only.
RotateEnterCS ==
    /\ pc = "swap"
    /\ WIN32
    /\ sysfileSection = "free"
    /\ sysfileSection' = "main"
    /\ pc' = "locked"
    /\ UNCHANGED <<WIN32, horizon, now, pipeVars, faults, sigVars, disk, gucVars,
                   mainVars, pipe_eof_seen, syslogFile, rotVars, threadVars,
                   itersAfterEof, reopened, startVars>>

\* fclose(syslogFile);
RotateClose ==
    /\ pc = IF WIN32 THEN "locked" ELSE "swap"
    /\ pc' = "closed"
    /\ UNCHANGED <<WIN32, horizon, now, pipeVars, faults, sigVars, disk, gucVars,
                   mainVars, pipe_eof_seen, syslogFile, rotVars,
                   sysfileSection, threadVars, itersAfterEof, reopened, startVars>>

\* Faulty variant: last_rotation_time = the time of the collector's start
RotateInstall_StartTime ==
    /\ pc = "closed"
    /\ syslogFile' = fh
    /\ sysfileSection' = "free"
    /\ last_rotation_time' = StartTime
    /\ fh' = ""
    /\ rot_now' = 0
    /\ pc' = "wait"
    /\ UNCHANGED <<WIN32, horizon, now, pipeVars, faults, sigVars, disk, gucVars,
                   currentLogDir, rotation_requested, exit_code, pipe_eof_seen,
                   saveerrno, threadVars, itersAfterEof, reopened, startVars>>

\* syslogFile = fh; LeaveCriticalSection; last_rotation_time = now;
RotateInstall ==
    /\ pc = "closed"
    /\ syslogFile' = fh
    /\ sysfileSection' = "free"
    /\ last_rotation_time' = rot_now
    /\ fh' = ""
    /\ rot_now' = 0
    /\ pc' = "wait"
    /\ UNCHANGED <<WIN32, horizon, now, pipeVars, faults, sigVars, disk, gucVars,
                   currentLogDir, rotation_requested, exit_code, pipe_eof_seen,
                   saveerrno, threadVars, itersAfterEof, reopened, startVars>>

(***************************************************************************)
(* SysLoggerMain: select and piperead (not WIN32).                         *)
(***************************************************************************)
Readable == pipe # <<>> \/ writers = 0

\* select() times out after one second with nothing to read.
SelectTimeout ==
    /\ pc = "wait"
    /\ ~WIN32
    /\ ~Readable
    /\ pc' = "eofcheck"
    /\ UNCHANGED <<WIN32, horizon, now, pipeVars, faults, sigVars, disk, gucVars,
                   mainVars, pipe_eof_seen, syslogFile, rotVars,
                   sysfileSection, threadVars, itersAfterEof, reopened, startVars>>

\* select() or piperead() is interrupted by the one signal the collector
\* handles: sigHupHandler runs and the call fails with errno == EINTR.
WaitInterrupted ==
    /\ pc = "wait"
    /\ ~WIN32
    /\ sighups_left > 0
    /\ sighups_left' = sighups_left - 1
    /\ got_SIGHUP' = TRUE
    /\ pc' = "eofcheck"
    /\ UNCHANGED <<WIN32, horizon, now, pipeVars, faults, disk, gucVars, mainVars,
                   pipe_eof_seen, syslogFile, rotVars, sysfileSection,
                   threadVars, itersAfterEof, reopened, startVars>>

\* Faulty variant: a failed select() or piperead() is taken for pipe EOF.
WaitFailed_SetsEOF(msg) ==
    /\ pc = "wait"
    /\ ~WIN32
    /\ msg = MSG_READ_FAILED => Readable
    /\ faults < MaxFaults
    /\ faults' = faults + 1
    /\ disk' = ereport(disk, syslogFile, msg)
    /\ pipe_eof_seen' = TRUE
    /\ pc' = "eofcheck"
    /\ UNCHANGED <<WIN32, horizon, now, pipeVars, sigVars, gucVars, mainVars,
                   syslogFile, rotVars, sysfileSection,
                   threadVars, itersAfterEof, reopened, startVars>>

\* select() fails (msg = MSG_SELECT_FAILED) or, the pipe being readable,
\* piperead() fails (msg = MSG_READ_FAILED), with another errno.
WaitFailed(msg) ==
    /\ pc = "wait"
    /\ ~WIN32
    /\ msg = MSG_READ_FAILED => Readable
    /\ faults < MaxFaults
    /\ faults' = faults + 1
    /\ disk' = ereport(disk, syslogFile, msg)
    /\ pc' = "eofcheck"
    /\ UNCHANGED <<WIN32, horizon, now, pipeVars, sigVars, gucVars, mainVars,
                   pipe_eof_seen, syslogFile, rotVars, sysfileSection,
                   threadVars, itersAfterEof, reopened, startVars>>

\* piperead() returns n blocks, of which fwrite writes rc; then `continue'.
ReadData(n, rc) ==
    /\ pc = "wait"
    /\ ~WIN32
    /\ n \in 1..Min(Len(pipe), MaxRead)
    /\ rc \in 0..n
    /\ rc < n => faults < MaxFaults
    /\ faults' = IF rc < n THEN faults + 1 ELSE faults
    /\ pipe' = SubSeq(pipe, n + 1, Len(pipe))
    /\ logbuffer' = SubSeq(pipe, 1, n)
    /\ disk' = write_syslogger_file(disk, syslogFile, SubSeq(pipe, 1, n), rc)
    /\ pc' = "top"
    /\ UNCHANGED <<WIN32, horizon, now, nwritten, writers, sigVars, gucVars, mainVars,
                   pipe_eof_seen, syslogFile, rotVars, sysfileSection, wpc,
                   wdone, itersAfterEof, reopened, startVars>>

\* Faulty variant: after pipe EOF the loop `continue's like after a read.
ReadEOF_Continue ==
    /\ pc = "wait"
    /\ ~WIN32
    /\ pipe = <<>>
    /\ writers = 0
    /\ pipe_eof_seen' = TRUE
    /\ pc' = "top"
    /\ UNCHANGED <<WIN32, horizon, now, pipeVars, faults, sigVars, disk, gucVars,
                   mainVars, syslogFile, rotVars, sysfileSection, threadVars,
                   itersAfterEof, reopened, startVars>>

\* Faulty variant: a read of 0 bytes is not taken as pipe EOF.
ReadEOF_NoFlag ==
    /\ pc = "wait"
    /\ ~WIN32
    /\ pipe = <<>>
    /\ writers = 0
    /\ pc' = "eofcheck"
    /\ UNCHANGED <<WIN32, horizon, now, pipeVars, faults, sigVars, disk, gucVars,
                   mainVars, pipe_eof_seen, syslogFile, rotVars,
                   sysfileSection, threadVars, itersAfterEof, reopened,
                   startVars>>

\* piperead() returns 0 although select() said read-ready: pipe EOF.
ReadEOF ==
    /\ pc = "wait"
    /\ ~WIN32
    /\ pipe = <<>>
    /\ writers = 0
    /\ pipe_eof_seen' = TRUE
    /\ pc' = "eofcheck"
    /\ UNCHANGED <<WIN32, horizon, now, pipeVars, faults, sigVars, disk, gucVars,
                   mainVars, syslogFile, rotVars, sysfileSection, threadVars,
                   itersAfterEof, reopened, startVars>>

\* Faulty variant: after the sleep the loop `continue's like after a read.
MainSleep_Continue ==
    /\ pc = "wait"
    /\ WIN32
    /\ pc' = "top"
    /\ UNCHANGED <<WIN32, horizon, now, pipeVars, faults, sigVars, disk, gucVars,
                   mainVars, pipe_eof_seen, syslogFile, rotVars,
                   sysfileSection, threadVars, itersAfterEof, reopened, startVars>>

\* pgwin32_backend_usleep(1000000), WIN32 only.
MainSleep ==
    /\ pc = "wait"
    /\ WIN32
    /\ pc' = "eofcheck"
    /\ UNCHANGED <<WIN32, horizon, now, pipeVars, faults, sigVars, disk, gucVars,
                   mainVars, pipe_eof_seen, syslogFile, rotVars,
                   sysfileSection, threadVars, itersAfterEof, reopened, startVars>>

\* if (pipe_eof_seen) { ereport(LOG, "logger shutting down"); proc_exit(0); }
MainEofCheck ==
    /\ pc = "eofcheck"
    /\ IF pipe_eof_seen
       THEN /\ CanReport
            /\ disk' = ereport(disk, syslogFile, MSG_SHUTTING_DOWN)
            /\ exit_code' = 0
            /\ pc' = "done"
       ELSE /\ pc' = "top"
            /\ UNCHANGED <<disk, exit_code>>
    /\ UNCHANGED <<WIN32, horizon, now, pipeVars, faults, sigVars, gucVars,
                   currentLogDir, last_rotation_time, rotation_requested,
                   pipe_eof_seen, syslogFile, rotVars, sysfileSection,
                   threadVars, itersAfterEof, reopened, startVars>>

(***************************************************************************)
(* pipeThread: the WIN32 data-transfer thread.                             *)
(***************************************************************************)
ThreadAlive == WIN32 /\ Running

\* ReadFile returns n blocks.
ThreadRead(n) ==
    /\ ThreadAlive
    /\ wpc = "read"
    /\ n \in 1..Min(Len(pipe), MaxRead)
    /\ pipe' = SubSeq(pipe, n + 1, Len(pipe))
    /\ logbuffer' = SubSeq(pipe, 1, n)
    /\ wdone' = 0
    /\ wpc' = "enter"
    /\ UNCHANGED <<WIN32, horizon, now, nwritten, writers, faults, sigVars, disk,
                   gucVars, mainVars, pipe_eof_seen, syslogFile, pc, rotVars,
                   sysfileSection, itersAfterEof, reopened, startVars>>

\* Faulty variant: any failure of ReadFile ends the read loop.
ThreadReadFailed_Breaks ==
    /\ ThreadAlive
    /\ wpc = "read"
    /\ faults < MaxFaults
    /\ CanReport
    /\ faults' = faults + 1
    /\ disk' = ereport(disk, syslogFile, MSG_READ_FAILED)
    /\ wpc' = "eof"
    /\ UNCHANGED <<WIN32, horizon, now, pipeVars, sigVars, gucVars, mainVars,
                   pipe_eof_seen, syslogFile, pc, rotVars, sysfileSection,
                   logbuffer, wdone, itersAfterEof, reopened, startVars>>

\* ReadFile fails with another error than ERROR_HANDLE_EOF / BROKEN_PIPE.
ThreadReadFailed ==
    /\ ThreadAlive
    /\ wpc = "read"
    /\ faults < MaxFaults
    /\ CanReport
    /\ faults' = faults + 1
    /\ disk' = ereport(disk, syslogFile, MSG_READ_FAILED)
    /\ UNCHANGED <<WIN32, horizon, now, pipeVars, sigVars, gucVars, mainVars,
                   pipe_eof_seen, syslogFile, pc, rotVars, sysfileSection,
                   threadVars, itersAfterEof, reopened, startVars>>

\* ReadFile fails with ERROR_BROKEN_PIPE: break.
ThreadReadEOF ==
    /\ ThreadAlive
    /\ wpc = "read"
    /\ pipe = <<>>
    /\ writers = 0
    /\ wpc' = "eof"
    /\ UNCHANGED <<WIN32, horizon, now, pipeVars, faults, sigVars, disk, gucVars,
                   mainVars, pipe_eof_seen, syslogFile, pc, rotVars,
                   sysfileSection, logbuffer, wdone, itersAfterEof, reopened, startVars>>

\* Faulty variant: the thread writes without waiting for the critical section
ThreadEnterCS_NoWait ==
    /\ ThreadAlive
    /\ wpc = "enter"
    /\ sysfileSection' = "thread"
    /\ wpc' = "write"
    /\ UNCHANGED <<WIN32, horizon, now, pipeVars, faults, sigVars, disk, gucVars,
                   mainVars, pipe_eof_seen, syslogFile, pc, rotVars,
                   logbuffer, wdone, itersAfterEof, reopened, startVars>>

\* write_syslogger_file: EnterCriticalSection(&sysfileSection);
ThreadEnterCS ==
    /\ ThreadAlive
    /\ wpc = "enter"
    /\ sysfileSection = "free"
    /\ sysfileSection' = "thread"
    /\ wpc' = "write"
    /\ UNCHANGED <<WIN32, horizon, now, pipeVars, faults, sigVars, disk, gucVars,
                   mainVars, pipe_eof_seen, syslogFile, pc, rotVars,
                   logbuffer, wdone, itersAfterEof, reopened, startVars>>

\* write_syslogger_file: fwrite hands the next block of the buffer to the file.
ThreadWriteBlock ==
    /\ ThreadAlive
    /\ wpc = "write"
    /\ wdone < Len(logbuffer)
    /\ disk' = fwrite(disk, syslogFile, <<logbuffer[wdone + 1]>>)
    /\ wdone' = wdone + 1
    /\ UNCHANGED <<WIN32, horizon, now, pipeVars, faults, sigVars, gucVars, mainVars,
                   pipe_eof_seen, syslogFile, pc, rotVars, sysfileSection,
                   logbuffer, wpc, itersAfterEof, reopened, startVars>>

\* Faulty variant: write_syslogger_file returns without LeaveCriticalSection
ThreadLeaveCS_KeepsHeld(short) ==
    /\ ThreadAlive
    /\ wpc = "write"
    /\ IF short THEN wdone < Len(logbuffer) /\ faults < MaxFaults
       ELSE wdone = Len(logbuffer)
    /\ faults' = IF short THEN faults + 1 ELSE faults
    /\ wpc' = IF short THEN "report" ELSE "read"
    /\ UNCHANGED <<WIN32, horizon, now, pipeVars, sigVars, disk, gucVars, mainVars,
                   pipe_eof_seen, syslogFile, pc, rotVars, sysfileSection,
                   logbuffer, wdone, itersAfterEof, reopened, startVars>>

\* write_syslogger_file: fwrite returns (short when short holds);
\* LeaveCriticalSection(&sysfileSection);
ThreadLeaveCS(short) ==
    /\ ThreadAlive
    /\ wpc = "write"
    /\ IF short THEN wdone < Len(logbuffer) /\ faults < MaxFaults
       ELSE wdone = Len(logbuffer)
    /\ faults' = IF short THEN faults + 1 ELSE faults
    /\ sysfileSection' = "free"
    /\ wpc' = IF short THEN "report" ELSE "read"
    /\ UNCHANGED <<WIN32, horizon, now, pipeVars, sigVars, disk, gucVars, mainVars,
                   pipe_eof_seen, syslogFile, pc, rotVars, logbuffer, wdone,
                   itersAfterEof, reopened, startVars>>

\* write_syslogger_file: if (rc != count) ereport(LOG, ...);
ThreadReport ==
    /\ ThreadAlive
    /\ wpc = "report"
    /\ CanReport
    /\ disk' = ereport(disk, syslogFile, MSG_WRITE_FAILED)
    /\ wpc' = "read"
    /\ UNCHANGED <<WIN32, horizon, now, pipeVars, faults, sigVars, gucVars, mainVars,
                   pipe_eof_seen, syslogFile, pc, rotVars, sysfileSection,
                   logbuffer, wdone, itersAfterEof, reopened, startVars>>

\* pipe_eof_seen = true; _endthread();
ThreadSetEOF ==
    /\ ThreadAlive
    /\ wpc = "eof"
    /\ pipe_eof_seen' = TRUE
    /\ wpc' = "exit"
    /\ UNCHANGED <<WIN32, horizon, now, pipeVars, faults, sigVars, disk, gucVars,
                   mainVars, syslogFile, pc, rotVars, sysfileSection,
                   logbuffer, wdone, itersAfterEof, reopened, startVars>>

(***************************************************************************)
(* Descriptor tables.                                                      *)
(***************************************************************************)
Procs == {"postmaster", "syslogger"}
Descriptors == 0..MaxFd
stdout_fileno == 1
stderr_fileno == 2
\* syslogFile == NULL
\* The pid fork() hands to the postmaster.
sysloggerPid == 789
\* No call of SysLogger_Start has returned, or one is under way.
NoReturn == -2

NoFile == -1
\* An unset end of syslogPipe: -1, on WIN32 a null HANDLE.
NoPipeEnd == IF WIN32 THEN 0 ELSE -1

ClosedTable == [fd \in Descriptors |-> "none"]
\* What a descriptor can refer to besides a log file, which is entered in
\* the tables by its path.
Devices == {"none", "tty", "null", "pipe_r", "pipe_w"}
IsLogfile(what) == what \notin Devices
\* The postmaster is started with its standard streams open.
InheritedStdio == [fd \in Descriptors |-> IF fd <= 2 THEN "tty" ELSE "none"]

has_free(t, k) == Cardinality({fd \in Descriptors : t[fd] = "none"}) >= k
lowest_free(t) ==
    CHOOSE fd \in Descriptors :
        t[fd] = "none" /\ \A g \in 0..(fd - 1) : t[g] # "none"
\* open / pipe / fopen hand out the lowest free descriptor.
open(t, what) == [t EXCEPT ![lowest_free(t)] = what]
\* close(fd) on a bad descriptor fails and changes nothing.
close(t, fd) == IF fd \in Descriptors THEN [t EXCEPT ![fd] = "none"] ELSE t
\* dup2(oldfd, newfd) on a bad oldfd fails and leaves newfd alone.
dup2(t, oldfd, newfd) ==
    IF oldfd \in Descriptors /\ t[oldfd] # "none"
    THEN [t EXCEPT ![newfd] = t[oldfd]]
    ELSE t

\* snprintf(buf, 32, "%d", n)
itoa(n) == IF n < 0 THEN "-" \o Decimal(0 - n) ELSE Decimal(n)

IsDigit(c) == \E n \in 0..9 : Digit(n) = c
DigitValue(c) == CHOOSE n \in 0..9 : Digit(n) = c
RECURSIVE ParseDigits(_, _)
ParseDigits(str, acc) ==
    IF Len(str) = 0 \/ ~IsDigit(SubSeq(str, 1, 1))
    THEN acc
    ELSE ParseDigits(SubSeq(str, 2, Len(str)),
                     acc * 10 + DigitValue(SubSeq(str, 1, 1)))
atoi(str) ==
    IF Len(str) > 0 /\ SubSeq(str, 1, 1) = "-"
    THEN 0 - ParseDigits(SubSeq(str, 2, Len(str)), 0)
    ELSE ParseDigits(str, 0)

(***************************************************************************)
(* SysLogger_Start, in the postmaster.                                     *)
(***************************************************************************)
\* _get_osfhandle(fd): the operating-system handle behind a C runtime
\* descriptor.  Handles are multiples of 4 and none is 0.
get_osfhandle(fd) == 4 * (fd + 1)
\* _open_osfhandle(h, _O_APPEND): a C runtime descriptor for the handle, -1
\* if h is no handle.  The exec'ed collector's descriptor is named as the
\* postmaster names its descriptor of the same handle.
open_osfhandle(h) == IF h > 0 /\ h % 4 = 0 THEN (h \div 4) - 1 ELSE -1

\* Faulty variant: the two static variables are passed in the other order.
syslogger_forkexec_FlagFirst ==
    <<"postgres", "-forklog", "",
      itoa(IF redirection_done["postmaster"] THEN 1 ELSE 0),
      IF syslogFile_fd["postmaster"] # NoFile
      THEN IF WIN32
           THEN itoa(get_osfhandle(syslogFile_fd["postmaster"]))
           ELSE itoa(syslogFile_fd["postmaster"])
      ELSE IF WIN32 THEN "0" ELSE "-1">>

\* The argument list of the exec'ed collector; av[3] is filled in by
\* postmaster_forkexec.  av[4]: fileno(syslogFile), under WIN32 the handle
\* behind it, or the marker "-1", under WIN32 "0", if syslogFile is NULL;
\* av[5]: (int) redirection_done.
syslogger_forkexec ==
    <<"postgres", "-forklog", "",
      IF syslogFile_fd["postmaster"] # NoFile
      THEN IF WIN32
           THEN itoa(get_osfhandle(syslogFile_fd["postmaster"]))
           ELSE itoa(syslogFile_fd["postmaster"])
      ELSE IF WIN32 THEN "0" ELSE "-1",
      itoa(IF redirection_done["postmaster"] THEN 1 ELSE 0)>>

\* What the exec'ed collector extracts from its argument list: argv += 3;
\* fd = atoi(*argv++); if (fd != -1) syslogFile = fdopen(fd, "a"); under
\* WIN32 if (fd != 0) { fd = _open_osfhandle(fd, _O_APPEND); if (fd != 0)
\* syslogFile = fdopen(fd, "a"); }, and fdopen(-1, "a") is NULL;
\* redirection_done = (bool) atoi(*argv++).
syslogger_parseArgs(argv) ==
    LET fd == atoi(argv[4])
        crt == IF fd # 0 THEN open_osfhandle(fd) ELSE 0
    IN  [syslogFile_fd |->
             IF WIN32
             THEN IF fd # 0 /\ crt # 0 /\ crt # -1 THEN crt ELSE NoFile
             ELSE IF fd # -1 THEN fd ELSE NoFile,
         redirection_done |-> atoi(argv[5]) # 0]

\* Faulty variant: a pipe is created by every start.
NeedPipe_Always == TRUE

\* if (syslogPipe[0] < 0), under WIN32 if (!syslogPipe[0]): first time through
NeedPipe == syslogPipe["postmaster"][0] = NoPipeEnd

\* if (!Redirect_stderr) return 0; create the pipe if first time through;
\* now = time(NULL); syslogFile = fopen(logfile_getname(now), "a").  A
\* failure of either is FATAL.
SysLogger_StartOpen(pipe_ok, open_ok) ==
    /\ spc = "idle"
    /\ cpc \in {"none", "exited"}
    /\ starts < MaxStarts
    /\ starts' = starts + 1
    /\ \E clock \in ClockReadings :
        LET t == fds["postmaster"]
            needPipe == NeedPipe
            r == lowest_free(t)
            w == lowest_free(open(t, "pipe_r"))
            t1 == IF needPipe THEN open(open(t, "pipe_r"), "pipe_w") ELSE t
            p1 == IF needPipe
                  THEN [syslogPipe EXCEPT !["postmaster"] = [i \in {0, 1} |->
                                                 IF i = 0 THEN r ELSE w]]
                  ELSE syslogPipe
            filename == logfile_getname(clock, Log_directory, Log_filename_prefix)
        IN  IF ~Redirect_stderr
            THEN UNCHANGED <<fds, syslogPipe, syslogFile_fd, spc, now, disk>>
            ELSE IF needPipe /\ (~pipe_ok \/ ~has_free(t, 2))
            THEN /\ spc' = "fatal"
                 /\ UNCHANGED <<fds, syslogPipe, syslogFile_fd, now, disk>>
            ELSE IF ~open_ok \/ ~has_free(t1, 1)
            THEN /\ spc' = "fatal"
                 /\ fds' = [fds EXCEPT !["postmaster"] = t1]
                 /\ syslogPipe' = p1
                 /\ now' = clock
                 /\ UNCHANGED <<syslogFile_fd, disk>>
            ELSE /\ spc' = "fork"
                 /\ fds' = [fds EXCEPT !["postmaster"] = open(t1, filename)]
                 /\ syslogPipe' = p1
                 /\ syslogFile_fd' =
                        [syslogFile_fd EXCEPT !["postmaster"] = lowest_free(t1)]
                 /\ now' = clock
                 /\ disk' = fopen_append(disk, filename)
    /\ returned' = IF Redirect_stderr THEN NoReturn ELSE 0
    /\ UNCHANGED <<WIN32, horizon, pipeVars, faults, sigVars, gucVars, mainVars,
                   pipe_eof_seen, syslogFile, pc, rotVars, sysfileSection,
                   threadVars, itersAfterEof, reopened, EXEC_BACKEND,
                   Redirect_stderr, redirection_done, av, cpc>>

\* Faulty variant: after a failed fork the postmaster goes on as after a
\* successful one.
SysLogger_StartFork_NoReturn(ok) ==
    /\ spc = "fork"
    /\ IF ok
       THEN /\ fds' = [fds EXCEPT !["syslogger"] = fds["postmaster"]]
            /\ syslogPipe' =
                   [syslogPipe EXCEPT !["syslogger"] = syslogPipe["postmaster"]]
            /\ IF EXEC_BACKEND
               THEN /\ av' = syslogger_forkexec
                    /\ redirection_done' =
                           [redirection_done EXCEPT !["syslogger"] = FALSE]
                    /\ syslogFile_fd' =
                           [syslogFile_fd EXCEPT !["syslogger"] = NoFile]
                    /\ cpc' = "exec"
               ELSE /\ av' = <<>>
                    /\ redirection_done' =
                           [redirection_done EXCEPT !["syslogger"] =
                                redirection_done["postmaster"]]
                    /\ syslogFile_fd' =
                           [syslogFile_fd EXCEPT !["syslogger"] =
                                syslogFile_fd["postmaster"]]
                    /\ cpc' = "init"
            /\ spc' = "parent"
       ELSE /\ spc' = "parent"
            /\ UNCHANGED <<fds, syslogPipe, redirection_done, syslogFile_fd,
                           av, cpc>>
    /\ returned' = IF ok THEN returned ELSE 0
    /\ UNCHANGED <<WIN32, horizon, loopVars, EXEC_BACKEND, Redirect_stderr, starts>>

\* fork() or syslogger_forkexec(): the child starts with the postmaster's
\* descriptors; forked, also with its variables; exec'ed, with syslogPipe
\* from the backend variables and its own statics as initialised.
SysLogger_StartFork(ok) ==
    /\ spc = "fork"
    /\ IF ok
       THEN /\ fds' = [fds EXCEPT !["syslogger"] = fds["postmaster"]]
            /\ syslogPipe' =
                   [syslogPipe EXCEPT !["syslogger"] = syslogPipe["postmaster"]]
            /\ IF EXEC_BACKEND
               THEN /\ av' = syslogger_forkexec
                    /\ redirection_done' =
                           [redirection_done EXCEPT !["syslogger"] = FALSE]
                    /\ syslogFile_fd' =
                           [syslogFile_fd EXCEPT !["syslogger"] = NoFile]
                    /\ cpc' = "exec"
               ELSE /\ av' = <<>>
                    /\ redirection_done' =
                           [redirection_done EXCEPT !["syslogger"] =
                                redirection_done["postmaster"]]
                    /\ syslogFile_fd' =
                           [syslogFile_fd EXCEPT !["syslogger"] =
                                syslogFile_fd["postmaster"]]
                    /\ cpc' = "init"
            /\ spc' = "parent"
       ELSE /\ spc' = "idle"
            /\ UNCHANGED <<fds, syslogPipe, redirection_done, syslogFile_fd,
                           av, cpc>>
    /\ returned' = IF ok THEN returned ELSE 0
    /\ UNCHANGED <<WIN32, horizon, loopVars, EXEC_BACKEND, Redirect_stderr, starts>>

\* Faulty variant: redirection_done is not set.
SysLogger_StartRedirect_NoFlag ==
    /\ spc = "parent"
    /\ IF ~redirection_done["postmaster"]
       THEN LET t == fds["postmaster"]
                w == syslogPipe["postmaster"][1]
                t1 == IF WIN32
                      THEN dup2(t, w, stderr_fileno)
                      ELSE dup2(dup2(t, w, stdout_fileno), w, stderr_fileno)
            IN  /\ fds' = [fds EXCEPT !["postmaster"] = close(t1, w)]
                /\ syslogPipe' =
                       [syslogPipe EXCEPT !["postmaster"][1] = NoPipeEnd]
                /\ redirection_done' = redirection_done
       ELSE UNCHANGED <<fds, syslogPipe, redirection_done>>
    /\ spc' = "close"
    /\ UNCHANGED <<WIN32, horizon, loopVars, EXEC_BACKEND, Redirect_stderr,
                   syslogFile_fd, av, cpc, starts, returned>>

\* if (!redirection_done): dup2 the write end onto stdout and stderr (on
\* WIN32 onto stderr), close the write end, redirection_done = true.  The
\* write end being open here, dup2 does not fail.
SysLogger_StartRedirect ==
    /\ spc = "parent"
    /\ IF ~redirection_done["postmaster"]
       THEN LET t == fds["postmaster"]
                w == syslogPipe["postmaster"][1]
                t1 == IF WIN32
                      THEN dup2(t, w, stderr_fileno)
                      ELSE dup2(dup2(t, w, stdout_fileno), w, stderr_fileno)
            IN  /\ fds' = [fds EXCEPT !["postmaster"] = close(t1, w)]
                /\ syslogPipe' =
                       [syslogPipe EXCEPT !["postmaster"][1] = NoPipeEnd]
                /\ redirection_done' =
                       [redirection_done EXCEPT !["postmaster"] = TRUE]
       ELSE UNCHANGED <<fds, syslogPipe, redirection_done>>
    /\ spc' = "close"
    /\ UNCHANGED <<WIN32, horizon, loopVars, EXEC_BACKEND, Redirect_stderr,
                   syslogFile_fd, av, cpc, starts, returned>>

\* fclose(syslogFile); syslogFile = NULL; return (int) sysloggerPid;
SysLogger_StartClose ==
    /\ spc = "close"
    /\ fds' = [fds EXCEPT !["postmaster"] =
                   close(fds["postmaster"], syslogFile_fd["postmaster"])]
    /\ syslogFile_fd' = [syslogFile_fd EXCEPT !["postmaster"] = NoFile]
    /\ spc' = "idle"
    /\ returned' = sysloggerPid
    /\ UNCHANGED <<WIN32, horizon, loopVars, EXEC_BACKEND, Redirect_stderr, syslogPipe,
                   redirection_done, av, cpc, starts>>

(***************************************************************************)
(* SysLoggerMain: the initialisation of the collector.                     *)
(***************************************************************************)
\* syslogger_parseArgs(argc, argv), EXEC_BACKEND only.
SysLoggerMain_parseArgs ==
    /\ cpc = "exec"
    /\ syslogFile_fd' = [syslogFile_fd EXCEPT !["syslogger"] =
                             syslogger_parseArgs(av).syslogFile_fd]
    /\ redirection_done' = [redirection_done EXCEPT !["syslogger"] =
                                syslogger_parseArgs(av).redirection_done]
    /\ cpc' = "init"
    /\ UNCHANGED <<WIN32, horizon, loopVars, EXEC_BACKEND, Redirect_stderr, fds,
                   syslogPipe, av, spc, starts, returned>>

\* Faulty variant: stdout and stderr are closed only when the null device
\* could be opened.
SysLoggerMain_redirect_IfOpened(ok) ==
    /\ cpc = "init"
    /\ LET t == fds["syslogger"]
           opened == ok /\ has_free(t, 1)
           fd == IF opened THEN lowest_free(t) ELSE -1
           t1 == IF opened THEN open(t, "null") ELSE t
           t2 == close(close(t1, stdout_fileno), stderr_fileno)
           t3 == dup2(dup2(t2, fd, stdout_fileno), fd, stderr_fileno)
       IN  IF redirection_done["syslogger"] /\ opened
           THEN fds' = [fds EXCEPT !["syslogger"] = close(t3, fd)]
           ELSE UNCHANGED fds
    /\ cpc' = "closepipe"
    /\ UNCHANGED <<WIN32, horizon, loopVars, EXEC_BACKEND, Redirect_stderr, syslogPipe,
                   redirection_done, syslogFile_fd, av, spc, starts,
                   returned>>

\* if (redirection_done) { fd = open(NULL_DEV, O_WRONLY); close(stdout);
\* close(stderr); dup2(fd, stdout); dup2(fd, stderr); close(fd); }
\* ok: whether the open succeeds, a descriptor being free.
SysLoggerMain_redirect(ok) ==
    /\ cpc = "init"
    /\ LET t == fds["syslogger"]
           opened == ok /\ has_free(t, 1)
           fd == IF opened THEN lowest_free(t) ELSE -1
           t1 == IF opened THEN open(t, "null") ELSE t
           t2 == close(close(t1, stdout_fileno), stderr_fileno)
           t3 == dup2(dup2(t2, fd, stdout_fileno), fd, stderr_fileno)
       IN  IF redirection_done["syslogger"]
           THEN fds' = [fds EXCEPT !["syslogger"] = close(t3, fd)]
           ELSE UNCHANGED fds
    /\ cpc' = "closepipe"
    /\ UNCHANGED <<WIN32, horizon, loopVars, EXEC_BACKEND, Redirect_stderr, syslogPipe,
                   redirection_done, syslogFile_fd, av, spc, starts,
                   returned>>

\* if (syslogPipe[1] >= 0) close(syslogPipe[1]); syslogPipe[1] = -1;
\* then the signal dispositions, under WIN32 the data-transfer thread,
\* last_rotation_time = time(NULL), currentLogDir = Log_directory, and the
\* main loop is entered with the logfile the process was handed.
SysLoggerMain_closePipe ==
    /\ cpc = "closepipe"
    /\ fds' = [fds EXCEPT !["syslogger"] =
                   IF syslogPipe["syslogger"][1] # NoPipeEnd
                   THEN close(fds["syslogger"], syslogPipe["syslogger"][1])
                   ELSE fds["syslogger"]]
    /\ syslogPipe' = [syslogPipe EXCEPT !["syslogger"][1] = NoPipeEnd]
    /\ cpc' = "running"
    /\ syslogFile' = IF syslogFile_fd["syslogger"] \in Descriptors
                     THEN fds["syslogger"][syslogFile_fd["syslogger"]]
                     ELSE ""
    /\ \E clock \in ClockReadings :
        /\ now' = clock
        /\ last_rotation_time' = clock
    /\ currentLogDir' = Log_directory
    /\ pipe_eof_seen' = FALSE
    /\ got_SIGHUP' = FALSE
    /\ pc' = "top"
    /\ rotation_requested' = FALSE
    /\ fh' = ""
    /\ rot_now' = 0
    /\ saveerrno' = "none"
    /\ exit_code' = -1
    /\ sysfileSection' = "free"
    /\ logbuffer' = <<>>
    /\ wpc' = IF WIN32 THEN "read" ELSE "none"
    /\ wdone' = 0
    /\ itersAfterEof' = 0
    /\ UNCHANGED <<WIN32, horizon, pipeVars, faults, sighups_left, disk, gucVars,
                   reopened, EXEC_BACKEND, Redirect_stderr, redirection_done,
                   syslogFile_fd, av, spc, starts, returned>>

\* The collector process ends (proc_exit, or a crash): its descriptors are
\* closed, and the postmaster may start another one.
CollectorExit ==
    /\ cpc = "running"
    /\ fds' = [fds EXCEPT !["syslogger"] = ClosedTable]
    /\ cpc' = "exited"
    /\ pc' = IF pc = "done" THEN "done" ELSE "killed"
    /\ UNCHANGED <<WIN32, horizon, now, pipeVars, faults, sigVars, disk, gucVars,
                   mainVars, pipe_eof_seen, syslogFile, rotVars,
                   sysfileSection, threadVars, itersAfterEof, reopened,
                   EXEC_BACKEND, Redirect_stderr, syslogPipe,
                   redirection_done, syslogFile_fd, av, spc, starts,
                   returned>>

(***************************************************************************)
(* The running collector.                                                  *)
(***************************************************************************)
InitialConfig ==
    [dir |-> "pg_log", age |-> 1, size |-> 1, prefix |-> "postgresql-"]

\* The collector as it enters its main loop, with the logfile the postmaster
\* opened for it.
LoopInit(hups) ==
    /\ now = StartTime
    /\ pipe = <<>>
    /\ nwritten = 0
    /\ writers = MaxWriters
    /\ faults = 0
    /\ sighups_left = hups
    /\ Log_directory = InitialConfig.dir
    /\ Log_RotationAge = InitialConfig.age
    /\ Log_RotationSize = InitialConfig.size
    /\ Log_filename_prefix = InitialConfig.prefix
    /\ currentLogDir = InitialConfig.dir
    /\ syslogFile = logfile_getname(StartTime, InitialConfig.dir, InitialConfig.prefix)
    /\ disk = <<[path |-> logfile_getname(StartTime, InitialConfig.dir,
                                          InitialConfig.prefix),
                 data |-> <<>>]>>
    /\ last_rotation_time = StartTime
    /\ pipe_eof_seen = FALSE
    /\ got_SIGHUP = FALSE
    /\ pc = "top"
    /\ rotation_requested = FALSE
    /\ fh = ""
    /\ rot_now = 0
    /\ saveerrno = "none"
    /\ exit_code = -1
    /\ sysfileSection = "free"
    /\ logbuffer = <<>>
    /\ wpc = IF WIN32 THEN "read" ELSE "none"
    /\ wdone = 0
    /\ itersAfterEof = 0
    /\ reopened = FALSE

\* The start-up protocol after a first start: the postmaster redirected,
\* the collector initialised.
StartedOnce ==
    /\ EXEC_BACKEND = WIN32
    /\ Redirect_stderr = TRUE
    /\ fds = [p \in Procs |-> [fd \in Descriptors |->
                 IF p = "postmaster"
                 THEN CASE fd = 0 -> "tty"
                        [] fd = stdout_fileno ->
                               IF WIN32 THEN "tty" ELSE "pipe_w"
                        [] fd = stderr_fileno -> "pipe_w"
                        [] fd = 3 -> "pipe_r"
                        [] OTHER -> "none"
                 ELSE CASE fd \in 0..2 -> "tty"
                        [] fd = 3 -> "pipe_r"
                        [] fd = 5 -> syslogFile
                        [] OTHER -> "none"]]
    /\ syslogPipe = [p \in Procs |-> [i \in {0, 1} |->
                        IF i = 0 THEN 3 ELSE NoPipeEnd]]
    /\ redirection_done = [p \in Procs |-> p = "postmaster"]
    /\ syslogFile_fd = [p \in Procs |-> IF p = "postmaster" THEN NoFile ELSE 5]
    /\ av = IF WIN32 THEN <<"postgres", "-forklog", "", "5", "0">> ELSE <<>>
    /\ spc = "idle"
    /\ cpc = "running"
    /\ starts = 1
    /\ returned = sysloggerPid

Init ==
    /\ WIN32 \in BOOLEAN
    /\ horizon = MaxMinutes
    /\ LoopInit(MaxSighups)
    /\ StartedOnce

Next ==
    \/ \E sig \in Signals : DeliverSignal(sig)
    \/ WriterWrite
    \/ WriterClose
    \/ MainTop
    \/ MainReload
    \/ MainCheck
    \/ RotateOpen
    \/ \E errno \in OpenErrnos : RotateOpenFailed(errno)
    \/ RotateEnterCS
    \/ RotateClose
    \/ RotateInstall
    \/ SelectTimeout
    \/ WaitInterrupted
    \/ \E msg \in {MSG_SELECT_FAILED, MSG_READ_FAILED} : WaitFailed(msg)
    \/ \E n \in 1..MaxRead : \E rc \in 0..n : ReadData(n, rc)
    \/ ReadEOF
    \/ MainSleep
    \/ MainEofCheck
    \/ \E n \in 1..MaxRead : ThreadRead(n)
    \/ ThreadReadFailed
    \/ ThreadReadEOF
    \/ ThreadEnterCS
    \/ ThreadWriteBlock
    \/ \E short \in BOOLEAN : ThreadLeaveCS(short)
    \/ ThreadReport
    \/ ThreadSetEOF

Spec == Init /\ [][Next]_vars

(***************************************************************************)
(* Scheduling.  Both threads keep running; a thread blocked on the         *)
(* critical section gets it, the main thread sleeping a second outside it  *)
(* in every iteration.  No I/O fault is ever bound to happen.              *)
(***************************************************************************)
MainProgress ==
    \/ MainTop
    \/ MainReload
    \/ MainCheck
    \/ RotateOpen
    \/ RotateEnterCS
    \/ RotateClose
    \/ RotateInstall
    \/ SelectTimeout
    \/ \E n \in 1..MaxRead : ReadData(n, n)
    \/ ReadEOF
    \/ MainSleep
    \/ MainEofCheck

ThreadProgress ==
    \/ \E n \in 1..MaxRead : ThreadRead(n)
    \/ ThreadReadEOF
    \/ ThreadWriteBlock
    \/ ThreadLeaveCS(FALSE)
    \/ ThreadSetEOF

\* The collector until its exit, its configuration never reread.
ShutdownInit ==
    /\ WIN32 \in BOOLEAN
    /\ horizon = MaxMinutes
    /\ LoopInit(0)
    /\ StartedOnce

ShutdownNext ==
    \/ \E sig \in Signals : DeliverSignal(sig)
    \/ WriterWrite
    \/ WriterClose
    \/ MainTop
    \/ MainCheck
    \/ RotateOpen
    \/ \E errno \in OpenErrnos : RotateOpenFailed(errno)
    \/ RotateEnterCS
    \/ RotateClose
    \/ RotateInstall
    \/ SelectTimeout
    \/ \E msg \in {MSG_SELECT_FAILED, MSG_READ_FAILED} : WaitFailed(msg)
    \/ \E n \in 1..MaxRead : \E rc \in 0..n : ReadData(n, rc)
    \/ ReadEOF
    \/ MainSleep
    \/ MainEofCheck
    \/ \E n \in 1..MaxRead : ThreadRead(n)
    \/ ThreadReadFailed
    \/ ThreadReadEOF
    \/ ThreadEnterCS
    \/ ThreadWriteBlock
    \/ \E short \in BOOLEAN : ThreadLeaveCS(short)
    \/ ThreadReport
    \/ ThreadSetEOF

ShutdownSpec ==
    /\ ShutdownInit
    /\ [][ShutdownNext]_vars
    /\ WF_vars(MainProgress)
    /\ WF_vars(ThreadProgress)
    /\ SF_vars(ThreadEnterCS)
    /\ SF_vars(ThreadReport)

(***************************************************************************)
(* The collector under reloads and rotations: the configuration is reread  *)
(* up to MaxReloads times, and the only failures are those of the fopen of *)
(* a rotation.                                                             *)
(***************************************************************************)
RotationInit ==
    /\ WIN32 \in BOOLEAN
    /\ horizon = MaxMinutes
    /\ LoopInit(MaxReloads)
    /\ StartedOnce

RotationNext ==
    \/ \E sig \in Signals : DeliverSignal(sig)
    \/ WriterWrite
    \/ WriterClose
    \/ MainTop
    \/ MainReload
    \/ MainCheck
    \/ RotateOpen
    \/ \E errno \in OpenErrnos : RotateOpenFailed(errno)
    \/ RotateEnterCS
    \/ RotateClose
    \/ RotateInstall
    \/ SelectTimeout
    \/ WaitInterrupted
    \/ \E n \in 1..MaxRead : ReadData(n, n)
    \/ ReadEOF
    \/ MainSleep
    \/ MainEofCheck
    \/ \E n \in 1..MaxRead : ThreadRead(n)
    \/ ThreadReadEOF
    \/ ThreadEnterCS
    \/ ThreadWriteBlock
    \/ ThreadLeaveCS(FALSE)
    \/ ThreadSetEOF

RotationSpec == RotationInit /\ [][RotationNext]_vars

(***************************************************************************)
(* The collector under reloads, with the scheduling its progress relies on *)
(* and no I/O failure: SIGHUP is sent up to MaxReloads times, at any point *)
(* of the loop.                                                            *)
(***************************************************************************)
ReloadInit ==
    /\ WIN32 \in BOOLEAN
    /\ horizon = MaxMinutes
    /\ LoopInit(MaxReloads)
    /\ StartedOnce

ReloadNext ==
    \/ \E sig \in Signals : DeliverSignal(sig)
    \/ WriterWrite
    \/ WriterClose
    \/ MainTop
    \/ MainReload
    \/ MainCheck
    \/ RotateOpen
    \/ RotateEnterCS
    \/ RotateClose
    \/ RotateInstall
    \/ SelectTimeout
    \/ WaitInterrupted
    \/ \E n \in 1..MaxRead : ReadData(n, n)
    \/ ReadEOF
    \/ MainSleep
    \/ MainEofCheck
    \/ \E n \in 1..MaxRead : ThreadRead(n)
    \/ ThreadReadEOF
    \/ ThreadEnterCS
    \/ ThreadWriteBlock
    \/ ThreadLeaveCS(FALSE)
    \/ ThreadSetEOF

ReloadSpec ==
    /\ ReloadInit
    /\ [][ReloadNext]_vars
    /\ WF_vars(MainProgress)
    /\ WF_vars(ThreadProgress)
    /\ SF_vars(ThreadEnterCS)

(***************************************************************************)
(* The collector over two rotation ages: nothing is written into the pipe, *)
(* the configuration is reread once, the clock runs a minute longer.       *)
(***************************************************************************)
AgeInit ==
    /\ WIN32 \in BOOLEAN
    /\ horizon = MaxMinutes + 1
    /\ LoopInit(1)
    /\ StartedOnce

AgeNext ==
    \/ \E sig \in Signals : DeliverSignal(sig)
    \/ WriterClose
    \/ MainTop
    \/ MainReload
    \/ MainCheck
    \/ RotateOpen
    \/ \E errno \in OpenErrnos : RotateOpenFailed(errno)
    \/ RotateEnterCS
    \/ RotateClose
    \/ RotateInstall
    \/ SelectTimeout
    \/ WaitInterrupted
    \/ ReadEOF
    \/ MainSleep
    \/ MainEofCheck
    \/ ThreadReadEOF
    \/ ThreadSetEOF

AgeSpec == AgeInit /\ [][AgeNext]_vars

(***************************************************************************)
(* The start-up protocol.                                                  *)
(***************************************************************************)
\* The postmaster with the configuration cfg and no collector process: no
\* logfile, no pipe data, the statics as compiled in.
NoCollectorOn(cfg, files) ==
    /\ now = StartTime
    /\ pipe = <<>>
    /\ nwritten = 0
    /\ writers = MaxWriters
    /\ faults = 0
    /\ sighups_left = 0
    /\ Log_directory = cfg.dir
    /\ Log_RotationAge = cfg.age
    /\ Log_RotationSize = cfg.size
    /\ Log_filename_prefix = cfg.prefix
    /\ currentLogDir = ""
    /\ syslogFile = ""
    /\ disk = files
    /\ last_rotation_time = 0
    /\ pipe_eof_seen = FALSE
    /\ got_SIGHUP = FALSE
    /\ pc = "none"
    /\ rotation_requested = FALSE
    /\ fh = ""
    /\ rot_now = 0
    /\ saveerrno = "none"
    /\ exit_code = -1
    /\ sysfileSection = "free"
    /\ logbuffer = <<>>
    /\ wpc = "none"
    /\ wdone = 0
    /\ itersAfterEof = 0
    /\ reopened = FALSE

NoCollector(cfg) == NoCollectorOn(cfg, <<>>)

StartInit ==
    /\ WIN32 \in BOOLEAN
    /\ horizon = MaxMinutes
    /\ EXEC_BACKEND \in BOOLEAN
    /\ WIN32 => EXEC_BACKEND
    /\ Redirect_stderr \in BOOLEAN
    /\ fds = [p \in Procs |->
                 IF p = "postmaster" THEN InheritedStdio ELSE ClosedTable]
    /\ syslogPipe = [p \in Procs |-> [i \in {0, 1} |-> NoPipeEnd]]
    /\ redirection_done = [p \in Procs |-> FALSE]
    /\ syslogFile_fd = [p \in Procs |-> NoFile]
    /\ av = <<>>
    /\ spc = "idle"
    /\ cpc = "none"
    /\ starts = 0
    /\ returned = NoReturn
    /\ NoCollector(InitialConfig)

StartNext ==
    \/ \E pipe_ok, open_ok \in BOOLEAN : SysLogger_StartOpen(pipe_ok, open_ok)
    \/ \E ok \in BOOLEAN : SysLogger_StartFork(ok)
    \/ SysLogger_StartRedirect
    \/ SysLogger_StartClose
    \/ SysLoggerMain_parseArgs
    \/ \E ok \in BOOLEAN : SysLoggerMain_redirect(ok)
    \/ SysLoggerMain_closePipe
    \/ CollectorExit

StartSpec == StartInit /\ [][StartNext]_vars

(***************************************************************************)
(* Starts and restarts of a collector that runs: the start-up protocol     *)
(* together with the main loop (and the thread), rotation configured off,  *)
(* no SIGHUP and no I/O fault.                                             *)
(***************************************************************************)
RotationOff == [dir |-> "pg_log", age |-> 0, size |-> 0, prefix |-> "postgresql-"]

RespawnInit ==
    /\ WIN32 \in BOOLEAN
    /\ horizon = MaxMinutes
    /\ EXEC_BACKEND \in BOOLEAN
    /\ WIN32 => EXEC_BACKEND
    /\ Redirect_stderr = TRUE
    /\ fds = [p \in Procs |->
                 IF p = "postmaster" THEN InheritedStdio ELSE ClosedTable]
    /\ syslogPipe = [p \in Procs |-> [i \in {0, 1} |-> NoPipeEnd]]
    /\ redirection_done = [p \in Procs |-> FALSE]
    /\ syslogFile_fd = [p \in Procs |-> NoFile]
    /\ av = <<>>
    /\ spc = "idle"
    /\ cpc = "none"
    /\ starts = 0
    /\ returned = NoReturn
    /\ NoCollector(RotationOff)

RespawnNext ==
    \/ \E pipe_ok, open_ok \in BOOLEAN : SysLogger_StartOpen(pipe_ok, open_ok)
    \/ \E ok \in BOOLEAN : SysLogger_StartFork(ok)
    \/ SysLogger_StartRedirect
    \/ SysLogger_StartClose
    \/ SysLoggerMain_parseArgs
    \/ \E ok \in BOOLEAN : SysLoggerMain_redirect(ok)
    \/ SysLoggerMain_closePipe
    \/ CollectorExit
    \/ WriterWrite
    \/ WriterClose
    \/ MainTop
    \/ MainCheck
    \/ SelectTimeout
    \/ \E n \in 1..MaxRead : ReadData(n, n)
    \/ ReadEOF
    \/ MainSleep
    \/ MainEofCheck
    \/ \E n \in 1..MaxRead : ThreadRead(n)
    \/ ThreadReadEOF
    \/ ThreadEnterCS
    \/ ThreadWriteBlock
    \/ ThreadLeaveCS(FALSE)
    \/ ThreadSetEOF

RespawnSpec == RespawnInit /\ [][RespawnNext]_vars

(***************************************************************************)
(* The hand-over of the static variables to an exec'ed collector:          *)
(* syslogger_forkexec in the fork of SysLogger_Start, syslogger_parseArgs  *)
(* in the collector, over the descriptors syslogFile can have and both     *)
(* values of redirection_done.                                             *)
(***************************************************************************)
\* fileno(syslogFile) in the postmaster that is about to fork; NoFile:
\* syslogFile is NULL.  Descriptors above MaxFd are outside the tables.
ArgFiles == {NoFile} \cup 5..MaxFileno

\* The postmaster of an EXEC_BACKEND build at the fork of SysLogger_Start:
\* the pipe is there, stdout and stderr are on it if redirection_done, and
\* syslogFile is the logfile just opened.
ArgsInit ==
    /\ WIN32 \in BOOLEAN
    /\ horizon = MaxMinutes
    /\ EXEC_BACKEND = TRUE
    /\ Redirect_stderr = TRUE
    /\ \E f \in ArgFiles, done \in BOOLEAN :
           LET name == logfile_getname(StartTime, InitialConfig.dir,
                                       InitialConfig.prefix)
           IN  /\ syslogFile_fd =
                      [p \in Procs |-> IF p = "postmaster" THEN f ELSE NoFile]
               /\ redirection_done =
                      [p \in Procs |-> p = "postmaster" /\ done]
               /\ fds = [p \in Procs |->
                            IF p = "syslogger" THEN ClosedTable
                            ELSE [fd \in Descriptors |->
                                     IF fd = 0 THEN "tty"
                                     ELSE IF fd \in {1, 2}
                                          THEN IF done THEN "pipe_w" ELSE "tty"
                                     ELSE IF fd = 3 THEN "pipe_r"
                                     ELSE IF fd = 4
                                          THEN IF done THEN "none" ELSE "pipe_w"
                                     ELSE IF fd = f THEN name
                                     ELSE "none"]]
               /\ syslogPipe =
                      [p \in Procs |->
                          IF p = "syslogger" THEN [i \in {0, 1} |-> NoPipeEnd]
                          ELSE [i \in {0, 1} |->
                                   IF i = 0 THEN 3
                                   ELSE IF done THEN NoPipeEnd ELSE 4]]
               /\ NoCollectorOn(InitialConfig,
                                IF f = NoFile THEN <<>>
                                ELSE <<[path |-> name, data |-> <<>>]>>)
    /\ av = <<>>
    /\ spc = "fork"
    /\ cpc = "none"
    /\ starts = 1
    /\ returned = NoReturn

ArgsNext ==
    \/ \E ok \in BOOLEAN : SysLogger_StartFork(ok)
    \/ SysLoggerMain_parseArgs

ArgsSpec == ArgsInit /\ [][ArgsNext]_vars

(***************************************************************************)
(* The names of the log files: logfile_getname as SysLogger_Start and      *)
(* logfile_rotate apply it, over the configured directories and prefixes   *)
(* and over clock readings before and after the end of daylight saving.    *)
(***************************************************************************)
RECURSIVE Repeat(_, _)
Repeat(str, n) ==
    IF n = 0 THEN ""
    ELSE IF n % 2 = 1 THEN str \o Repeat(str, n - 1)
    ELSE Repeat(str, n \div 2) \o Repeat(str, n \div 2)

\* A directory whose files' names do not fit into MAXPGPATH characters.
LongDirectory == "/" \o Repeat("d", MAXPGPATH - 15)

NameDirectories == {"pg_log", "/log", LongDirectory}
NamePrefixes == {"postgresql-", "pg"}
NameInstants ==
    {1, 2, 61} \cup {t + TimeZone.dst_end : t \in {-1, 1, 61}}

\* The collector with the logfile SysLogger_Start named at the instant t.
NameInit ==
    /\ WIN32 = FALSE
    /\ horizon = MaxMinutes
    /\ Log_directory \in NameDirectories
    /\ Log_filename_prefix \in NamePrefixes
    /\ now \in NameInstants
    /\ last_rotation_time = now
    /\ currentLogDir = Log_directory
    /\ syslogFile = logfile_getname(now, Log_directory, Log_filename_prefix)
    /\ disk = <<[path |-> syslogFile, data |-> <<>>]>>
    /\ Log_RotationAge = InitialConfig.age
    /\ Log_RotationSize = InitialConfig.size
    /\ pipe = <<>>
    /\ nwritten = 0
    /\ writers = MaxWriters
    /\ faults = 0
    /\ sighups_left = 0
    /\ pipe_eof_seen = FALSE
    /\ got_SIGHUP = FALSE
    /\ pc = "rotate"
    /\ rotation_requested = TRUE
    /\ fh = ""
    /\ rot_now = 0
    /\ saveerrno = "none"
    /\ exit_code = -1
    /\ sysfileSection = "free"
    /\ logbuffer = <<>>
    /\ wpc = "none"
    /\ wdone = 0
    /\ itersAfterEof = 0
    /\ reopened = FALSE
    /\ StartedOnce

\* logfile_rotate: now = time(NULL); filename = logfile_getname(now);
\* fh = fopen(filename, "a"), at the clock reading t.
NameRotate(t) ==
    /\ pc = "rotate"
    /\ t >= now
    /\ now' = t
    /\ rot_now' = t
    /\ fh' = logfile_getname(t, Log_directory, Log_filename_prefix)
    /\ disk' = fopen_append(disk, fh')
    /\ pc' = "swap"
    /\ UNCHANGED <<WIN32, horizon, pipeVars, faults, sigVars, gucVars, mainVars,
                   pipe_eof_seen, syslogFile, saveerrno, sysfileSection,
                   threadVars, itersAfterEof, reopened, startVars>>

\* A later iteration of the loop enters logfile_rotate again.
NameRotateAgain ==
    /\ pc = "wait"
    /\ pc' = "rotate"
    /\ UNCHANGED <<WIN32, horizon, now, pipeVars, faults, sigVars, disk, gucVars,
                   mainVars, pipe_eof_seen, syslogFile, rotVars,
                   sysfileSection, threadVars, itersAfterEof, reopened,
                   startVars>>

NameNext ==
    \/ \E t \in NameInstants : NameRotate(t)
    \/ RotateClose
    \/ RotateInstall
    \/ NameRotateAgain

NameSpec == NameInit /\ [][NameNext]_vars

(***************************************************************************)
(* What the log files show.                                                *)
(***************************************************************************)
Range(f) == {f[i] : i \in 1..Len(f)}
Last(f) == f[Len(f)]

\* The contents of all log files, in the order the files were created.
RECURSIVE ConcatFiles(_)
ConcatFiles(d) == IF d = <<>> THEN <<>> ELSE Head(d).data \o ConcatFiles(Tail(d))

\* The pipe data within the contents of a file: the collector's own
\* messages left out.
IsPipeData(e) == e > 0
PipeData(data) == SelectSeq(data, IsPipeData)

\* The blocks read from the pipe so far, in the order they were read.
BytesRead == [i \in 1..(nwritten - Len(pipe)) |-> i]

\* The blocks the data-transfer thread has read but fwrite has not yet been
\* given the chance to write.
Unwritten ==
    IF WIN32 /\ wpc \in {"enter", "write"}
    THEN SubSeq(logbuffer, wdone + 1, Len(logbuffer))
    ELSE <<>>

\* Some fwrite wrote less than it was asked to.
WriteFailed ==
    \/ wpc = "report"
    \/ MSG_WRITE_FAILED \in Range(ConcatFiles(disk))

\* A step changes no log file other than the current one.
OnlyCurrentFileGrows ==
    \A i \in 1..Len(disk) :
        disk'[i].data # disk[i].data => disk[i].path = syslogFile

(***************************************************************************)
(* C1  Byte conservation without rotation.                                 *)
(***************************************************************************)
\* C1: while no rotation has created another log file and every write
\* succeeded in full, the pipe data in the current log file - everything in
\* it but the collector's own messages - is exactly the bytes read from the
\* pipe, in the order read, nothing dropped, duplicated or reordered.
C1_ByteConservation ==
    (Len(disk) = 1 /\ ~WriteFailed)
        => PipeData(FileData(disk, syslogFile)) \o Unwritten = BytesRead

C1_Witness ==
    /\ Len(disk) = 1
    /\ ~WriteFailed
    /\ PipeData(FileData(disk, syslogFile)) = <<1, 2, 3>>
    /\ Len(FileData(disk, syslogFile)) > 3

(***************************************************************************)
(* C2  Byte conservation across rotations.                                 *)
(***************************************************************************)
\* C2 as stated: every write having succeeded, the pipe data of all log
\* files, concatenated in the order of creation, is the bytes read so far.
C2_AsStated ==
    ~WriteFailed => PipeData(ConcatFiles(disk)) \o Unwritten = BytesRead

\* C2: after any interleaving of reads and rotation attempts in which every
\* write succeeded and no rotation reopened an older log file that was no
\* longer the current one, the pipe data of all log files, concatenated in
\* the order of creation, is exactly the bytes read from the pipe so far.
C2_ConservationAcrossRotations ==
    (~WriteFailed /\ ~reopened)
        => PipeData(ConcatFiles(disk)) \o Unwritten = BytesRead

C2_Witness ==
    /\ ~WriteFailed
    /\ ~reopened
    /\ Len(disk) >= 2
    /\ PipeData(disk[1].data) # <<>>
    /\ PipeData(disk[2].data) # <<>>
    /\ MSG_OPEN_FAILED \in Range(ConcatFiles(disk))
    /\ Len(BytesRead) = MaxBlocks

(***************************************************************************)
(* C3  Rotation splitting.                                                 *)
(***************************************************************************)
\* The log files that hold a block of the latest chunk read.
ChunkFiles ==
    {i \in 1..Len(disk) :
        \E k \in 1..Len(logbuffer) : logbuffer[k] \in Range(disk[i].data)}

\* C3: the blocks of one chunk never lie in two log files, and once the
\* chunk is written in full all of them lie in one file; with or without
\* the data-transfer thread.
C3_NoChunkSplit ==
    /\ Cardinality(ChunkFiles) <= 1
    /\ (logbuffer # <<>> /\ Unwritten = <<>> /\ ~WriteFailed)
           => \E i \in 1..Len(disk) :
                  \A k \in 1..Len(logbuffer) : logbuffer[k] \in Range(disk[i].data)

\* The main thread is about to swap the file while the data-transfer thread
\* is in the middle of writing a chunk.
C3_Witness ==
    /\ WIN32
    /\ pc = "swap"
    /\ wpc = "write"
    /\ Len(logbuffer) = 2
    /\ wdone = 1

(***************************************************************************)
(* C4  The collector exits only on pipe EOF.                               *)
(***************************************************************************)
\* C4: the collector is never ended but by proc_exit(0) after pipe_eof_seen
\* became true, and the delivery of a termination signal changes nothing.
C4_ExitsOnlyOnEOF ==
    [][/\ ~Running' => (pc' = "done" /\ pipe_eof_seen' /\ exit_code' = 0)
       /\ UNCHANGED vars \/ \A sig \in TerminationSignals : ~DeliverSignal(sig)
      ]_vars

C4_Witness ==
    /\ pc = "done"
    /\ exit_code = 0
    /\ pipe_eof_seen
    /\ Len(BytesRead) = MaxBlocks

(***************************************************************************)
(* C5  Clean shutdown.                                                     *)
(***************************************************************************)
AllBytesOnDisk == \A b \in 1..nwritten : b \in Range(ConcatFiles(disk))

CleanExit ==
    /\ pc = "done"
    /\ exit_code = 0
    /\ pipe_eof_seen
    /\ pipe = <<>>
    /\ Last(FileData(disk, syslogFile)) = MSG_SHUTTING_DOWN

\* C5 as stated, its final result: at the exit every byte written to the
\* pipe is in a log file.
C5_AsStated == pc = "done" => (exit_code = 0 /\ AllBytesOnDisk)

\* C5: under ShutdownSpec (the collector keeps being scheduled and failures of
\* select and read do not go on for ever), once every process has closed the
\* write end the collector eventually has drained the pipe, set
\* pipe_eof_seen, written "logger shutting down" and exited with code 0;
\* unless some write to the log file fell short, every byte written to the
\* pipe is then in a log file.
C5_CleanShutdown ==
    (writers = 0) ~> (CleanExit /\ (~WriteFailed => AllBytesOnDisk))

C5_Witness ==
    /\ CleanExit
    /\ ~WriteFailed
    /\ nwritten = MaxBlocks
    /\ AllBytesOnDisk

(***************************************************************************)
(* C6  EOF finality.                                                       *)
(***************************************************************************)
\* Where the collector can be once pipe_eof_seen is set: past its last read
\* (the data-transfer thread ended), in the iteration that exits.
AfterEOF ==
    pipe_eof_seen =>
        IF WIN32
        THEN wpc = "exit" /\ itersAfterEof <= 1
        ELSE pc \in {"eofcheck", "done"} /\ itersAfterEof = 0

\* C6: pipe_eof_seen is never cleared, and once it is set there is no
\* further read and the process exits within one further loop iteration.
C6_EOFFinality ==
    [][(pipe_eof_seen => pipe_eof_seen') /\ AfterEOF']_vars

C6_Witness ==
    /\ WIN32
    /\ pipe_eof_seen
    /\ pc = "done"
    /\ itersAfterEof = 1

(***************************************************************************)
(* C7  No descriptor of the write end after the initialisation.            *)
(***************************************************************************)
HoldsWriteEnd(p) == \E fd \in Descriptors : fds[p][fd] = "pipe_w"

\* C7: once its initialisation is over, the collector holds no descriptor
\* of the pipe's write end; on a first start and on a restart, whether or
\* not the null device could be opened.
C7_NoWriteEnd == cpc = "running" => ~HoldsWriteEnd("syslogger")

\* A restarted collector that could not open the null device.
C7_Witness ==
    /\ cpc = "running"
    /\ redirection_done["syslogger"]
    /\ fds["syslogger"][stderr_fileno] = "none"
    /\ HoldsWriteEnd("postmaster")

(***************************************************************************)
(* C8  Rotation decision policy.                                           *)
(***************************************************************************)
\* The policy, at the step that makes the checks (now' is the clock reading
\* of that step).
RotationPolicy ==
    \/ rotation_requested
    \/ /\ Log_RotationAge > 0
       /\ now' - last_rotation_time >= Log_RotationAge * 60
    \/ /\ Log_RotationSize > 0
       /\ ftell(disk, syslogFile) >= Log_RotationSize * 1024

\* C8: a rotation is requested by the reload exactly when it finds
\* Log_directory changed; logfile_rotate is entered only from the checks of
\* an iteration, and then exactly when the policy holds.
C8_RotationPolicy ==
    [][/\ pc = "reload" => (rotation_requested' <=> Log_directory' # currentLogDir)
       /\ (pc = "check" /\ pc' # "check") => ((pc' = "rotate") <=> RotationPolicy)
       /\ (pc' = "rotate" /\ pc # "rotate") => pc = "check"
      ]_vars

\* A rotation by age alone.
C8_Witness ==
    /\ pc = "rotate"
    /\ ~got_SIGHUP
    /\ currentLogDir = InitialConfig.dir
    /\ Log_RotationAge = InitialConfig.age
    /\ ftell(disk, syslogFile) < Log_RotationSize * 1024
    /\ now - last_rotation_time = Log_RotationAge * 60

(***************************************************************************)
(* C9  Descriptor exhaustion during rotation.                              *)
(***************************************************************************)
\* C9: a rotation whose fopen fails with EMFILE or ENFILE leaves the
\* current file, last_rotation_time and the rotation settings as they are;
\* data keeps going to the current file only; a rotation whose fopen
\* succeeds installs the file it opened.
C9_FdExhaustion ==
    [][/\ (pc = "rotate" /\ saveerrno' \in FdExhaustion)
              => /\ syslogFile' = syslogFile
                 /\ last_rotation_time' = last_rotation_time
                 /\ Log_RotationAge' = Log_RotationAge
                 /\ Log_RotationSize' = Log_RotationSize
                 /\ pc' = "wait"
       /\ OnlyCurrentFileGrows
       /\ (pc = "closed" /\ pc' # "closed")
              => /\ syslogFile' = fh
                 /\ FileExists(disk', syslogFile')
                 /\ last_rotation_time' = rot_now
      ]_vars

\* After a failed fopen that did not disable rotation, data went on into
\* the old file, and a later rotation installed another file.
C9_Witness ==
    \E i \in 1..Len(disk) :
        /\ disk[i].path # syslogFile
        /\ MSG_DISABLING \notin Range(disk[i].data)
        /\ \E k \in 1..(Len(disk[i].data) - 1) :
               /\ disk[i].data[k] = MSG_OPEN_FAILED
               /\ IsPipeData(disk[i].data[k + 1])

(***************************************************************************)
(* C10  Rotation disables safely.                                          *)
(***************************************************************************)
RotationDisabled == Log_RotationAge = 0 /\ Log_RotationSize = 0

\* C10: a rotation whose fopen fails otherwise sets both rotation settings
\* to zero and keeps the current file; both stay zero until a reload is
\* processed, meanwhile no rotation is under way and data goes to that file.
C10_DisablesSafely ==
    [][/\ (pc = "rotate" /\ saveerrno' \in OpenErrnos \ FdExhaustion)
              => RotationDisabled' /\ syslogFile' = syslogFile /\ pc' = "wait"
       /\ (RotationDisabled /\ pc # "reload")
              => /\ RotationDisabled'
                 /\ syslogFile' = syslogFile
                 /\ OnlyCurrentFileGrows
       /\ RotationDisabled' => pc' \notin {"rotate", "swap", "locked", "closed"}
      ]_vars

\* Rotation is disabled and data was written after it became so.
C10_Witness ==
    /\ RotationDisabled
    /\ \E k \in 1..(Len(FileData(disk, syslogFile)) - 1) :
           /\ FileData(disk, syslogFile)[k] = MSG_DISABLING
           /\ IsPipeData(FileData(disk, syslogFile)[k + 1])
    /\ ftell(disk, syslogFile) >= 2 * 1024

(***************************************************************************)
(* C11  Re-enabling by reload.                                             *)
(***************************************************************************)
\* The GUC variables hold what some configuration file sets.
AsConfigured ==
    [dir |-> Log_directory, age |-> Log_RotationAge, size |-> Log_RotationSize,
     prefix |-> Log_filename_prefix] \in ConfigFiles

\* Some rotation failure has disabled automatic rotation.
WasDisabled == MSG_DISABLING \in Range(ConcatFiles(disk))

\* C11: when automatic rotation is disabled, the processing of a reload sets
\* Log_RotationAge and Log_RotationSize to the configured values and goes on
\* to the checks of the same iteration; from then on a rotation is entered
\* again whenever the age or the size trigger holds.
C11_ReenabledByReload ==
    [][/\ (pc = "reload" /\ pc' # "reload" /\ RotationDisabled)
              => (AsConfigured' /\ ~RotationDisabled' /\ pc' = "check")
       /\ (pc = "check" /\ pc' # "check" /\ WasDisabled)
              => ((pc' = "rotate") <=> RotationPolicy)
      ]_vars

\* Rotation was disabled in a file that a later rotation, not forced by a
\* change of directory, has replaced.
C11_Witness ==
    /\ currentLogDir = InitialConfig.dir
    /\ ~RotationDisabled
    /\ \E i \in 1..Len(disk) :
           /\ MSG_DISABLING \in Range(disk[i].data)
           /\ disk[i].path # syslogFile

(***************************************************************************)
(* C12  Directory change via reload.                                       *)
(***************************************************************************)
\* The directory logfile_getname puts the files of Log_directory dir in.
LogDirPath(dir) == IF is_absolute_path(dir) THEN dir ELSE DataDir \o "/" \o dir

InDir(path, dir) ==
    /\ Len(path) > Len(LogDirPath(dir)) + 1
    /\ SubSeq(path, 1, Len(LogDirPath(dir)) + 1) = LogDirPath(dir) \o "/"

\* The current file lies in the directory of the snapshot.
InCurrentDir == InDir(syslogFile, currentLogDir)

\* The reload of this step finds Log_directory changed.
DirectoryChanges == pc = "reload" /\ pc' # "reload" /\ Log_directory' # currentLogDir

LoopTop == pc = "top" /\ pc' # "top"

\* C13: a SIGHUP delivered at any point of the loop sets the latch; the latch
\* stays set until the top of the next iteration, which clears it and goes
\* on to the reread; the reread, which thus begins after the delivery, sets
\* the configured values.  A SIGHUP delivered between the clearing and the
\* reread leaves the latch set for the following iteration, SIGHUPs
\* delivered while the latch is set are served by one reread.  Under
\* ReloadSpec a set latch is always followed by a reread, unless pipe EOF
\* ends the collector first.
C13_NoLostReload ==
    /\ [][/\ (sighups_left' < sighups_left) => got_SIGHUP'
          /\ (got_SIGHUP /\ ~LoopTop) => got_SIGHUP'
          /\ LoopTop => (pc' = IF got_SIGHUP THEN "reload" ELSE "check")
          /\ (LoopTop /\ got_SIGHUP) => ~got_SIGHUP'
          /\ (pc = "reload" /\ pc' # "reload") => (AsConfigured' /\ pc' = "check")
         ]_vars
    /\ got_SIGHUP ~> (pc = "reload" \/ pc = "done")

\* A second SIGHUP was delivered between the clearing of the latch and the
\* reread.
C13_Witness ==
    /\ pc = "reload"
    /\ got_SIGHUP
    /\ sighups_left = 0

(***************************************************************************)
(* C14  The reload signal handler only sets the latch.                     *)
(***************************************************************************)
\* The step delivers a SIGHUP.
SighupDelivered == sighups_left' < sighups_left

\* C14: the delivery of SIGHUP sets got_SIGHUP and leaves the configuration
\* values, the current file and its contents, last_rotation_time,
\* currentLogDir and pipe_eof_seen as they are.  The configuration values
\* change only in the reload processing of the main loop, or in a rotation
\* whose fopen failed, which zeroes Log_RotationAge and Log_RotationSize.
C14_HandlerOnlySetsLatch ==
    [][/\ SighupDelivered
              => /\ got_SIGHUP'
                 /\ UNCHANGED <<gucVars, syslogFile, disk, last_rotation_time,
                                currentLogDir, pipe_eof_seen, rotation_requested>>
       /\ gucVars' # gucVars
              => \/ pc = "reload" /\ pc' = "check"
                 \/ /\ pc = "rotate"
                    /\ saveerrno' \in OpenErrnos \ FdExhaustion
                    /\ RotationDisabled'
                    /\ Log_directory' = Log_directory
                    /\ Log_filename_prefix' = Log_filename_prefix
      ]_vars

\* SIGHUP was delivered in the middle of a rotation, between fclose and the
\* installation of the new file.
C14_Witness ==
    /\ pc = "closed"
    /\ got_SIGHUP
    /\ sighups_left = 0
    /\ Log_RotationAge = InitialConfig.age
    /\ Log_RotationSize = InitialConfig.size

(***************************************************************************)
(* C15  Rotation idempotence within a second.                              *)
(***************************************************************************)
IsPrefix(a, b) == Len(a) <= Len(b) /\ SubSeq(b, 1, Len(a)) = a

\* No step removes a log file or anything a log file holds.
AppendOnly ==
    /\ Len(disk') >= Len(disk)
    /\ \A i \in 1..Len(disk) :
           /\ disk'[i].path = disk[i].path
           /\ IsPrefix(disk[i].data, disk'[i].data)

\* logfile_rotate opens its file in the second of the previous rotation,
\* Log_directory and Log_filename_prefix being those the current file was
\* named with.
SameSecondRotation ==
    /\ pc = "rotate"
    /\ pc' = "swap"
    /\ rot_now' = last_rotation_time
    /\ syslogFile = logfile_getname(last_rotation_time, Log_directory,
                                    Log_filename_prefix)

\* C15: a rotation in the second of the previous one, with Log_directory and
\* Log_filename_prefix unchanged, computes the path of the current file and
\* opens it without changing what it holds; the file it installs is the
\* same file with the same contents; and no step ever removes anything from
\* a file, so what is written afterwards is added to what was there.
C15_SameSecondRotation ==
    [][/\ SameSecondRotation => (fh' = syslogFile /\ disk' = disk)
       /\ (pc = "closed" /\ pc' # "closed" /\ fh = syslogFile)
              => (syslogFile' = syslogFile /\ disk' = disk)
       /\ AppendOnly
      ]_vars

\* A second rotation in the second of a first one has opened the current
\* file, which holds data.
C15_Witness ==
    /\ pc = "swap"
    /\ fh = syslogFile
    /\ rot_now = last_rotation_time
    /\ last_rotation_time > StartTime
    /\ Len(PipeData(FileData(disk, syslogFile))) >= 2

(***************************************************************************)
(* C16  File-name uniqueness.                                              *)
(***************************************************************************)
\* logfile_rotate has named its file at another second than the current
\* file was named at.
LaterRotation == pc = "swap" /\ rot_now # last_rotation_time

\* The name logfile_rotate computed fits into the MAXPGPATH bytes of its
\* buffer.
NameFits ==
    Len(logfile_format(rot_now, Log_directory, Log_filename_prefix)) < MAXPGPATH

\* C16 as stated: a rotation at another second than the previous one (or
\* than the initial open) names another file.
C16_AsStated == LaterRotation => fh # syslogFile

\* C16: a rotation at another second than the previous one (or than the
\* initial open) names another file, provided the name fits into
\* MAXPGPATH - 1 characters and the two seconds are not the same local time
\* (as they are an hour apart across the end of daylight saving).
C16_UniqueNames ==
    (/\ LaterRotation
     /\ NameFits
     /\ pg_localtime(rot_now) # pg_localtime(last_rotation_time))
        => fh # syslogFile

\* A rotation a minute after the previous one, across the end of daylight
\* saving.
C16_Witness ==
    /\ LaterRotation
    /\ NameFits
    /\ last_rotation_time < TimeZone.dst_end
    /\ rot_now > TimeZone.dst_end
    /\ pg_localtime(rot_now) # pg_localtime(last_rotation_time)
    /\ fh # syslogFile
    /\ Len(disk) = 2

(***************************************************************************)
(* C17  Name construction.                                                 *)
(***************************************************************************)
IsDigits(str) ==
    \A i \in 1..Len(str) : \E k \in 0..9 : SubSeq(str, i, i) = Digit(k)

\* str is "YYYY-MM-DD_HHMMSS" with the hour, minute and second of the local
\* time of t.
IsTimestampOf(str, t) ==
    /\ Len(str) = 17
    /\ IsDigits(SubSeq(str, 1, 4))
    /\ SubSeq(str, 5, 5) = "-"
    /\ IsDigits(SubSeq(str, 6, 7))
    /\ SubSeq(str, 8, 8) = "-"
    /\ IsDigits(SubSeq(str, 9, 10))
    /\ SubSeq(str, 11, 11) = "_"
    /\ IsDigits(SubSeq(str, 12, 17))
    /\ atoi(SubSeq(str, 12, 13)) = (pg_localtime(t) \div 3600) % 24
    /\ atoi(SubSeq(str, 14, 15)) = (pg_localtime(t) \div 60) % 60
    /\ atoi(SubSeq(str, 16, 17)) = pg_localtime(t) % 60

\* path is "<front><pid5>_<timestamp>.log" for the pid and the instant t.
HasNameFormat(path, front, pid, t) ==
    LET n == Len(front)
        w == Len(path) - n - 22
    IN  /\ w >= 5
        /\ SubSeq(path, 1, n) = front
        /\ IsDigits(SubSeq(path, n + 1, n + w))
        /\ atoi(SubSeq(path, n + 1, n + w)) = pid
        /\ w > 5 => SubSeq(path, n + 1, n + 1) # "0"
        /\ SubSeq(path, n + w + 1, n + w + 1) = "_"
        /\ IsTimestampOf(SubSeq(path, n + w + 2, n + w + 18), t)
        /\ SubSeq(path, n + w + 19, n + w + 22) = ".log"

\* The name logfile_rotate computed has the documented form.
NameAsDocumented ==
    /\ SubSeq(Log_directory, 1, 1) = "/" =>
           HasNameFormat(fh, Log_directory \o "/" \o Log_filename_prefix,
                         PostmasterPid, rot_now)
    /\ SubSeq(Log_directory, 1, 1) # "/" =>
           HasNameFormat(fh, DataDir \o "/" \o Log_directory \o "/"
                                 \o Log_filename_prefix,
                         PostmasterPid, rot_now)
    /\ PostmasterPid # MyProcPid
    /\ fh = logfile_getname(rot_now, Log_directory, Log_filename_prefix)

\* C17 as stated: the name logfile_rotate computed is
\* "<log_directory>/<prefix><pid5>_<timestamp>.log" for an absolute
\* log_directory and "<data_dir>/<log_directory>/<prefix><pid5>_<timestamp>.log"
\* otherwise, with the postmaster's pid in at least five digits.
C17_AsStated == pc = "swap" => NameAsDocumented

\* C17: the name logfile_rotate computed is
\* "<log_directory>/<prefix><pid5>_<timestamp>.log" for an absolute
\* log_directory and "<data_dir>/<log_directory>/<prefix><pid5>_<timestamp>.log"
\* otherwise, with the postmaster's pid in at least five digits, provided
\* that name is shorter than MAXPGPATH; it is a function of the directory,
\* the prefix, the data directory, the pid and the timestamp only.
C17_NameConstruction ==
    /\ (pc = "swap" /\ NameFits) => NameAsDocumented
    /\ \A pid \in {1, PostmasterPid, MyProcPid, 99999, 100000, 1234567} :
           /\ IsDigits(pid5(pid))
           /\ atoi(pid5(pid)) = pid
           /\ Len(pid5(pid)) = (IF pid < 100000 THEN 5 ELSE Len(Decimal(pid)))

\* An absolute and a relative log_directory, each with a name computed a
\* minute and a second after the end of daylight saving.
C17_Witness ==
    /\ pc = "swap"
    /\ rot_now = TimeZone.dst_end + 61
    /\ \/ /\ Log_directory = "/log"
          /\ Log_filename_prefix = "pg"
          /\ fh = "/log/pg00123_2004-10-31_020101.log"
       \/ /\ Log_directory = "pg_log"
          /\ Log_filename_prefix = "postgresql-"
          /\ fh = "/data/pg_log/postgresql-00123_2004-10-31_020101.log"

(***************************************************************************)
(* C18  last_rotation_time never decreases.                                *)
(***************************************************************************)
\* The step of logfile_rotate that installs the new file.
InstallStep == pc = "closed" /\ pc' = "wait"

\* C18: last_rotation_time starts as the time of the collector's start,
\* never decreases and never exceeds the clock; it changes only in the step
\* of a successful rotation that installs the new file, to the time the
\* file's name was computed from; failed rotations, reloads, reads and writes
\* leave it unchanged.
C18_MonotonicRotationTime ==
    /\ last_rotation_time = StartTime
    /\ [][/\ now' >= now
          /\ last_rotation_time' >= last_rotation_time
          /\ last_rotation_time' <= now'
          /\ InstallStep =>
                 /\ last_rotation_time' = rot_now
                 /\ syslogFile' = fh
                 /\ IsTimestampOf(SubSeq(fh, Len(fh) - 20, Len(fh) - 4),
                                  last_rotation_time')
          /\ ~InstallStep => last_rotation_time' = last_rotation_time
          /\ (pc = "rotate" /\ pc' # "swap") =>
                 /\ last_rotation_time' = last_rotation_time
                 /\ syslogFile' = syslogFile
       ]_vars

\* A rotation failed a minute after a successful one.
C18_Witness ==
    /\ RotationDisabled
    /\ last_rotation_time > StartTime
    /\ now > last_rotation_time
    /\ nwritten > 0

(***************************************************************************)
(* C19  One current file, always open.                                     *)
(***************************************************************************)
\* syslogFile is an open handle except between logfile_rotate's
\* fclose(syslogFile) and its syslogFile = fh.
SyslogFileOpen == pc # "closed"

\* The step puts data or a message of the collector into a file.
FileWritten == \E i \in 1..Len(disk) : disk'[i].data # disk[i].data

\* C19: the current file is one file, which exists; every step that puts
\* data or a message into a file finds the handle open and writes to the
\* current file; the thread is never inside fwrite, and the main loop never
\* at its size check, while the handle is closed; a successful rotation
\* installs the file it opened and a failed one keeps the current file.
C19_CurrentFileOpen ==
    /\ [](/\ Cardinality({i \in 1..Len(disk) : disk[i].path = syslogFile}) = 1
          /\ wpc = "write" => SyslogFileOpen
          /\ pc = "check" => SyslogFileOpen
          /\ ~SyslogFileOpen => FileExists(disk, fh))
    /\ [][/\ FileWritten => (SyslogFileOpen /\ OnlyCurrentFileGrows)
          /\ syslogFile' # syslogFile => (InstallStep /\ syslogFile' = fh)
          /\ (pc = "rotate" /\ pc' # "swap") => syslogFile' = syslogFile
       ]_vars

\* The thread has data to write while logfile_rotate has closed the old file
\* and not yet installed the new one.
C19_Witness ==
    /\ WIN32
    /\ ~SyslogFileOpen
    /\ wpc = "enter"
    /\ logbuffer # <<>>
    /\ fh # syslogFile

(***************************************************************************)
(* C20  Discipline of the critical section (WIN32).                        *)
(***************************************************************************)
\* The main loop is between EnterCriticalSection and LeaveCriticalSection
\* of logfile_rotate; the thread is between those of write_syslogger_file.
MainInsideCS == pc \in {"locked", "closed"}
ThreadInsideCS == wpc = "write"

\* The step puts data read from the pipe into a file.
PipeDataWritten ==
    \E i \in 1..Len(disk) :
        /\ disk'[i].data # disk[i].data
        /\ \E k \in 1..Len(disk'[i].data) :
               k > Len(disk[i].data) /\ disk'[i].data[k] > 0

\* C20: under WIN32 the critical section is held by the thread exactly
\* while it is inside write_syslogger_file's fwrite and by the main loop
\* exactly while it swaps the handles, never by both; pipe data is written
\* and the current file replaced only by its holder; the thread takes it with
\* one buffer to write, reads nothing while it holds it, and gives it up when
\* that one write returned; the main loop gives it up with the swap; whoever
\* holds it can always take its next step.
C20_MutexDiscipline ==
    /\ [](WIN32 =>
            /\ sysfileSection = "thread" <=> ThreadInsideCS
            /\ sysfileSection = "main" <=> MainInsideCS
            /\ ~(ThreadInsideCS /\ MainInsideCS)
            /\ (Running /\ ThreadInsideCS) =>
                   ENABLED (\/ ThreadWriteBlock
                            \/ \E short \in BOOLEAN : ThreadLeaveCS(short))
            /\ (Running /\ MainInsideCS) =>
                   ENABLED (RotateClose \/ RotateInstall))
    /\ [][WIN32 =>
            /\ PipeDataWritten =>
                   (sysfileSection = "thread" /\ sysfileSection' = "thread")
            /\ FileWritten => sysfileSection # "main"
            /\ syslogFile' # syslogFile =>
                   (sysfileSection = "main" /\ sysfileSection' = "free")
            /\ (sysfileSection # "thread" /\ sysfileSection' = "thread") =>
                   (wpc = "enter" /\ wdone' = 0 /\ logbuffer' # <<>>)
            /\ sysfileSection = "thread" =>
                   /\ logbuffer' = logbuffer
                   /\ wpc' # "write" =>
                          (sysfileSection' = "free" /\ wpc' \in {"read", "report"})
            /\ sysfileSection = "main" =>
                   /\ pc' \in {"locked", "closed", "wait"}
                   /\ pc' = "wait" <=> sysfileSection' = "free"
            /\ sysfileSection' # sysfileSection =>
                   (sysfileSection = "free" \/ sysfileSection' = "free")
       ]_vars

\* The main loop waits at EnterCriticalSection for the thread, whose write
\* has just returned.
C20_Witness ==
    /\ WIN32
    /\ pc = "swap"
    /\ sysfileSection = "thread"
    /\ ThreadInsideCS
    /\ wdone = Len(logbuffer)
    /\ wdone > 0

(***************************************************************************)
(* C21  Serialised access to the current file (WIN32).                     *)
(***************************************************************************)
\* The step is the main loop's check in which ftell(syslogFile) is called:
\* no rotation was requested, the age check (if made) did not ask for one,
\* and Log_RotationSize is positive.
SizeQueried ==
    /\ pc = "check"
    /\ pc' # "check"
    /\ ~rotation_requested
    /\ ~(AgeChecked /\ AgeTrigger(now'))
    /\ Log_RotationSize > 0

\* C21: under WIN32 the main loop never calls ftell(syslogFile) for its size
\* check while the thread is inside write_syslogger_file's fwrite, holding
\* the critical section.
C21_SerialisedAccess ==
    [][(WIN32 /\ SizeQueried) =>
           (sysfileSection # "thread" /\ ~ThreadInsideCS)]_vars

(***************************************************************************)
(* C22  Write failure handling.                                            *)
(***************************************************************************)
\* What the step appends to the current file.
Appended ==
    SubSeq(FileData(disk', syslogFile),
           Len(FileData(disk, syslogFile)) + 1, Len(FileData(disk', syslogFile)))

\* The chunk the step reads from the pipe.
ChunkRead == SubSeq(pipe, 1, Len(pipe) - Len(pipe'))

\* The current file, the rotation state and the collector's run are as they
\* were.
RotationStateKept ==
    UNCHANGED <<syslogFile, gucVars, currentLogDir, last_rotation_time,
                rotation_requested, rotVars, pipe_eof_seen, exit_code>>

\* The main loop (no thread) reads a chunk and fwrite writes less than all
\* of it.
ShortWriteStep ==
    /\ ~WIN32
    /\ Len(pipe') < Len(pipe)
    /\ Appended # ChunkRead

\* The thread's fwrite returned less than it was asked to write.
ThreadShortWrite == WIN32 /\ wpc = "write" /\ wpc' = "report"

\* C22: a write that writes less than the chunk puts its part of the chunk
\* and then one message into the current file; the rest of the chunk is not
\* written then or later (pipe data is written only by the call it was read
\* for); the current file and the rotation state stay as they are; the main
\* loop goes on with its next iteration, and the thread with its next read.
C22_WriteFailure ==
    [][/\ ShortWriteStep =>
              /\ \E rc \in 0..(Len(ChunkRead) - 1) :
                     Appended = SubSeq(ChunkRead, 1, rc) \o <<MSG_WRITE_FAILED>>
              /\ RotationStateKept
              /\ pc = "wait" /\ pc' = "top"
       /\ (~WIN32 /\ PipeDataWritten) =>
              /\ Len(pipe') < Len(pipe)
              /\ IsPrefix(PipeData(Appended), ChunkRead)
              /\ OnlyCurrentFileGrows
       /\ ThreadShortWrite =>
              /\ disk' = disk
              /\ sysfileSection' = "free"
              /\ UNCHANGED <<pc, logbuffer, wdone>>
              /\ RotationStateKept
       /\ (WIN32 /\ wpc = "report" /\ wpc' # "report") =>
              /\ Appended = <<MSG_WRITE_FAILED>>
              /\ wpc' = "read"
              /\ UNCHANGED <<pc, logbuffer, wdone>>
              /\ RotationStateKept
       /\ (WIN32 /\ PipeDataWritten) =>
              /\ wpc = "write" /\ wpc' = "write"
              /\ Appended = <<logbuffer[wdone + 1]>>
              /\ wdone' = wdone + 1
       /\ (WIN32 /\ wpc \in {"report", "read"}) =>
              \A k \in (wdone + 1)..Len(logbuffer) :
                  logbuffer[k] \notin Range(ConcatFiles(disk'))
      ]_vars

\* Of a chunk of two blocks the first was written and the second was not;
\* the main loop is at the top of its next iteration.
C22_Witness ==
    /\ ~WIN32
    /\ pc = "top"
    /\ exit_code = -1
    /\ logbuffer = <<1, 2>>
    /\ FileData(disk, syslogFile) = <<1, MSG_WRITE_FAILED>>

(***************************************************************************)
(* C23  Errors of select() and piperead() (no thread).                     *)
(***************************************************************************)
\* The main loop's select()/piperead() part ends without data having been
\* read.
WaitEndsWithoutData == ~WIN32 /\ pc = "wait" /\ pc' = "eofcheck"

\* C23: without the thread, a select() or piperead() that is interrupted
\* reports nothing, and one that fails otherwise reports one message (a
\* failed piperead only after select() said read-ready); neither sets
\* pipe_eof_seen, reads from the pipe or writes data, and the loop goes on
\* to its next iteration as after a timeout.  pipe_eof_seen is set only by
\* a piperead() of zero bytes when the pipe is read-ready.
C23_DrainErrors ==
    [][/\ WaitEndsWithoutData =>
              /\ pipe' = pipe
              /\ ~PipeDataWritten
              /\ UNCHANGED <<syslogFile, gucVars, mainVars, rotVars>>
              /\ \/ /\ pipe_eof_seen' /\ ~pipe_eof_seen
                    /\ Readable /\ pipe = <<>>
                    /\ disk' = disk
                    /\ UNCHANGED sigVars
                 \/ /\ pipe_eof_seen' = pipe_eof_seen
                    /\ \/ /\ sighups_left' = sighups_left - 1
                          /\ got_SIGHUP'
                          /\ disk' = disk
                       \/ /\ UNCHANGED sigVars
                          /\ \/ disk' = disk
                             \/ Appended = <<MSG_SELECT_FAILED>>
                             \/ Appended = <<MSG_READ_FAILED>> /\ Readable
       /\ (~WIN32 /\ pipe_eof_seen' # pipe_eof_seen) =>
              /\ WaitEndsWithoutData
              /\ pipe_eof_seen'
              /\ pipe = <<>> /\ writers = 0
       /\ (pc = "eofcheck" /\ ~pipe_eof_seen /\ pc' # pc) =>
              (pc' \in {"top", "killed"} /\ disk' = disk)
       /\ (pc = "eofcheck" /\ ~pipe_eof_seen) => ~pipe_eof_seen' \/ WIN32
      ]_vars

\* piperead() failed with data in the pipe; the loop is in its next
\* iteration, the data still in the pipe.
C23_Witness ==
    /\ ~WIN32
    /\ pc = "top"
    /\ ~pipe_eof_seen
    /\ exit_code = -1
    /\ pipe # <<>>
    /\ FileData(disk, syslogFile) # <<>>
    /\ Last(FileData(disk, syslogFile)) = MSG_READ_FAILED

(***************************************************************************)
(* C24  The postmaster's start protocol.                                   *)
(***************************************************************************)
\* A call of SysLogger_Start begins.
StartCalled == starts' = starts + 1

\* The postmaster forks (or forks and execs) a collector.
CollectorForked == cpc \in {"none", "exited"} /\ cpc' \in {"exec", "init"}

\* The postmaster's descriptor of the pipe's read end.
PostmasterReadEnd == syslogPipe["postmaster"][0]

\* C24: with redirect_stderr off a call of SysLogger_Start changes nothing
\* and returns 0; otherwise the pipe is created by the first call only, the
\* postmaster keeps its read end open from then on and every collector is
\* given that read end; a collector is forked only when the pipe exists and
\* the initial logfile is open; when the pipe cannot be created or the
\* logfile cannot be opened the postmaster ends without forking a collector.
C24_StartProtocol ==
    /\ [](/\ PostmasterReadEnd # NoPipeEnd =>
                 fds["postmaster"][PostmasterReadEnd] = "pipe_r"
          /\ spc = "fatal" => (cpc \in {"none", "exited"} /\ returned = NoReturn)
          /\ cpc \in {"exec", "init", "running"} =>
                 /\ syslogPipe["syslogger"][0] = PostmasterReadEnd
                 /\ fds["syslogger"][PostmasterReadEnd] = "pipe_r")
    /\ [][/\ (StartCalled /\ ~Redirect_stderr) =>
                 /\ returned' = 0
                 /\ UNCHANGED <<fds, syslogPipe, redirection_done,
                                syslogFile_fd, av, spc, cpc>>
          /\ PostmasterReadEnd' # PostmasterReadEnd =>
                 /\ PostmasterReadEnd = NoPipeEnd
                 /\ StartCalled /\ Redirect_stderr
                 /\ \A fd \in Descriptors :
                        fds["postmaster"][fd] \notin {"pipe_r", "pipe_w"}
          /\ CollectorForked =>
                 /\ spc = "fork"
                 /\ Redirect_stderr
                 /\ PostmasterReadEnd # NoPipeEnd
                 /\ syslogFile_fd["postmaster"] # NoFile
                 /\ IsLogfile(fds["postmaster"][syslogFile_fd["postmaster"]])
          /\ (StartCalled /\ Redirect_stderr /\ spc' # "fatal") =>
                 /\ spc' = "fork"
                 /\ PostmasterReadEnd' # NoPipeEnd
                 /\ IsLogfile(fds'["postmaster"][syslogFile_fd'["postmaster"]])
          /\ spc = "fatal" => (spc' = "fatal" /\ cpc' = cpc)
       ]_vars

\* A collector started after the previous one exited, on the pipe of the
\* first start.
C24_Witness ==
    /\ starts >= 2
    /\ cpc = "running"
    /\ spc = "idle"
    /\ returned = sysloggerPid
    /\ PostmasterReadEnd # NoPipeEnd
    /\ fds["syslogger"][PostmasterReadEnd] = "pipe_r"

(***************************************************************************)
(* C25  Fork failure.                                                      *)
(***************************************************************************)
\* fork() or syslogger_forkexec() returned -1: the postmaster leaves the
\* fork and no collector has appeared.
ForkFailed == spc = "fork" /\ spc' # "fork" /\ cpc' = cpc

\* C25: when the fork fails SysLogger_Start returns 0 with the postmaster's
\* descriptors (stdout and stderr among them), its pipe and redirection_done
\* as they were and no collector running; the postmaster can call
\* SysLogger_Start again, and a collector started by a later call holds the
\* read end of the same pipe.
C25_ForkFailure ==
    /\ [][ForkFailed =>
              /\ returned' = 0
              /\ spc' = "idle"
              /\ cpc' \in {"none", "exited"}
              /\ fds' = fds
              /\ redirection_done' = redirection_done
              /\ syslogPipe' = syslogPipe
              /\ PostmasterReadEnd # NoPipeEnd
          ]_vars
    /\ [](/\ cpc = "running" => fds["syslogger"][PostmasterReadEnd] = "pipe_r"
          /\ (returned = 0 /\ Redirect_stderr /\ starts < MaxStarts) =>
                 ENABLED (\E pipe_ok, open_ok \in BOOLEAN :
                              SysLogger_StartOpen(pipe_ok, open_ok)))

\* A fork failed (its logfile is still open in the postmaster, which never
\* redirected); a later call started a collector.
C25_Witness ==
    /\ spc = "parent"
    /\ cpc \in {"exec", "init"}
    /\ ~redirection_done["postmaster"]
    /\ Cardinality({fd \in Descriptors : IsLogfile(fds["postmaster"][fd])}) = 2
    /\ fds["postmaster"][stderr_fileno] = "tty"
    /\ fds["syslogger"][PostmasterReadEnd] = "pipe_r"

(***************************************************************************)
(* C26  Redirection happens once; a restarted collector.                   *)
(***************************************************************************)
\* The collector's initialisation is over and its redirection_done is set:
\* it was started after the postmaster had redirected.
RestartedCollector == cpc = "running" /\ redirection_done["syslogger"]

\* C26 as stated, the restarted collector's part: the collector started
\* with redirection_done set has its stdout and stderr on the null device.
C26_AsStated ==
    RestartedCollector =>
        /\ fds["syslogger"][stdout_fileno] = "null"
        /\ fds["syslogger"][stderr_fileno] = "null"

\* C26: the postmaster's stderr changes only in the step that redirects it
\* to the pipe, taken after a successful fork with redirection_done unset;
\* that step closes the postmaster's descriptor of the write end and sets
\* redirection_done, which stays set.  A collector started with
\* redirection_done set has its stdout and stderr on the null device or,
\* when that could not be opened, closed; it takes the logfile it was handed
\* as its current file, and no step of a start or of a collector removes
\* anything from a logfile: data is appended to the current file.
C26_RedirectOnce ==
    /\ [](/\ redirection_done["postmaster"] =>
                 /\ fds["postmaster"][stderr_fileno] = "pipe_w"
                 /\ syslogPipe["postmaster"][1] = NoPipeEnd
                 /\ \A fd \in Descriptors :
                        fds["postmaster"][fd] = "pipe_w" =>
                            fd \in {stdout_fileno, stderr_fileno}
          /\ ~redirection_done["postmaster"] =>
                 fds["postmaster"][stderr_fileno] = "tty"
          /\ RestartedCollector =>
                 /\ fds["syslogger"][stdout_fileno] \in {"null", "none"}
                 /\ fds["syslogger"][stderr_fileno] =
                        fds["syslogger"][stdout_fileno]
          /\ (cpc = "running" /\ Running) =>
                 /\ syslogFile_fd["syslogger"] \in Descriptors
                 /\ fds["syslogger"][syslogFile_fd["syslogger"]] = syslogFile
                 /\ FileExists(disk, syslogFile))
    /\ [][/\ redirection_done["postmaster"] => redirection_done'["postmaster"]
          /\ redirection_done'["postmaster"] # redirection_done["postmaster"] =>
                 (spc = "parent" /\ spc' = "close")
          /\ (spc' = "parent" /\ spc # "parent") => CollectorForked
          /\ fds'["postmaster"][stderr_fileno] # fds["postmaster"][stderr_fileno] =>
                 (~redirection_done["postmaster"] /\ redirection_done'["postmaster"])
          /\ (cpc = "closepipe" /\ cpc' = "running") =>
                 /\ IsLogfile(syslogFile')
                 /\ syslogFile' = fds["syslogger"][syslogFile_fd["syslogger"]]
                 /\ disk' = disk
          /\ AppendOnly
          /\ FileWritten => OnlyCurrentFileGrows
       ]_vars

\* A restarted collector, its stdout and stderr on the null device, has
\* appended the chunk it read to what the logfile it was handed held.
C26_Witness ==
    /\ RestartedCollector
    /\ ~WIN32
    /\ fds["syslogger"][stderr_fileno] = "null"
    /\ starts >= 2
    /\ pc = "top"
    /\ logbuffer # <<>>
    /\ Len(FileData(disk, syslogFile)) > Len(logbuffer)

(***************************************************************************)
(* C27  The hand-over of syslogFile and redirection_done to an exec'ed     *)
(*      collector.                                                         *)
(***************************************************************************)
\* The argument list was built by syslogger_forkexec and is still there.
ArgsBuilt == cpc \in {"exec", "init"} /\ av # <<>>
\* syslogger_parseArgs has been applied to it.
ArgsParsed == cpc = "init" /\ av # <<>>

\* C27: the argument list syslogger_forkexec builds has five elements: the
\* program name, -forklog, the slot left to postmaster_forkexec, the value
\* of the file (the marker if the postmaster has no file) and
\* redirection_done as 0 or 1; syslogger_parseArgs applied to it gives the
\* collector the file the postmaster held, or no file for the marker, and
\* the postmaster's redirection_done.
C27_RoundTrip ==
    /\ ArgsBuilt =>
           /\ Len(av) = 5
           /\ av[1] = "postgres"
           /\ av[2] = "-forklog"
           /\ av[3] = ""
           /\ av[4] = (IF syslogFile_fd["postmaster"] = NoFile
                       THEN IF WIN32 THEN "0" ELSE "-1"
                       ELSE IF WIN32
                            THEN Decimal(get_osfhandle(syslogFile_fd["postmaster"]))
                            ELSE Decimal(syslogFile_fd["postmaster"]))
           /\ av[5] = (IF redirection_done["postmaster"] THEN "1" ELSE "0")
    /\ ArgsParsed =>
           /\ syslogFile_fd["syslogger"] = syslogFile_fd["postmaster"]
           /\ redirection_done["syslogger"] = redirection_done["postmaster"]

\* The collector has recovered a file whose value has two digits and a set
\* redirection_done.
C27_Witness ==
    /\ ArgsParsed
    /\ syslogFile_fd["postmaster"] > 9
    /\ syslogFile_fd["syslogger"] = syslogFile_fd["postmaster"]
    /\ redirection_done["syslogger"]
    /\ av[5] = "1"

(***************************************************************************)
(* C28  The two variants of the main loop: select()/piperead() and the     *)
(*      data-transfer thread.                                              *)
(***************************************************************************)
\* The part of the loop body the main thread is in; logfile_rotate is one
\* part, with or without its critical section.
LoopPart == IF pc \in {"rotate", "swap", "locked", "closed"} THEN "rotate" ELSE pc

\* The order of the parts: reload, the rotation checks, logfile_rotate, the
\* wait for data (from which a read `continue's), the check for pipe EOF.
LoopOrder ==
    {<<"top", "reload">>, <<"top", "check">>, <<"reload", "check">>,
     <<"check", "rotate">>, <<"check", "wait">>, <<"rotate", "wait">>,
     <<"wait", "eofcheck">>, <<"wait", "top">>,
     <<"eofcheck", "top">>, <<"eofcheck", "done">>}

\* The blocks of pipe data in the log files.
DataBlocks(d) == {b \in Range(ConcatFiles(d)) : IsPipeData(b)}

\* The step appends pipe data in the order of the pipe: to the end of the
\* current file and of no other, blocks that come after every block in a
\* log file, in ascending order; while no write fell short they are the
\* very next blocks of the pipe.
AppendsInPipeOrder ==
    LET old == DataBlocks(disk)
        new == DataBlocks(disk') \ old
        app == PipeData(Appended)
    IN  /\ OnlyCurrentFileGrows
        /\ Range(app) = new
        /\ Cardinality(new) = Len(app)
        /\ \A a \in old, b \in new : a < b
        /\ \A i, j \in 1..Len(app) : i < j => app[i] < app[j]
        /\ ~WriteFailed' =>
               new = (Cardinality(old) + 1)..(Cardinality(old) + Len(app))

\* C28: with the data-transfer thread and without it, the collector is the
\* same machine to its surroundings.  Pipe data is appended to the log
\* files in the order of the pipe, nothing left out while every write
\* succeeds; the main loop goes through its parts in one order, the reload
\* first and exactly when SIGHUP was latched, then the rotation checks,
\* then logfile_rotate exactly when a rotation is requested, then the wait,
\* from which only a read of data goes straight to the next iteration,
\* then the check for pipe EOF; the GUC variables change only in the
\* reload (and when logfile_rotate disables rotation); and the process
\* exits, with code 0, in the check that finds pipe_eof_seen set, and in no
\* other step.
C28_VariantEquivalence ==
    [][/\ LoopPart' # LoopPart => <<LoopPart, LoopPart'>> \in LoopOrder
       /\ (LoopPart = "top" /\ LoopPart' # "top") =>
              ((LoopPart' = "reload") = got_SIGHUP)
       /\ (LoopPart = "check" /\ LoopPart' # "check") =>
              ((LoopPart' = "rotate") = rotation_requested')
       /\ gucVars' # gucVars => LoopPart \in {"reload", "rotate"}
       /\ <<syslogFile, last_rotation_time>>' # <<syslogFile, last_rotation_time>> =>
              (LoopPart = "rotate" /\ LoopPart' = "wait")
       /\ (LoopPart = "wait" /\ LoopPart' = "top") => Len(pipe') < Len(pipe)
       /\ (LoopPart = "eofcheck" /\ LoopPart' # "eofcheck") =>
              ((LoopPart' = "done") = pipe_eof_seen)
       /\ exit_code' # exit_code =>
              (LoopPart = "eofcheck" /\ LoopPart' = "done" /\ exit_code' = 0)
       /\ PipeDataWritten => AppendsInPipeOrder
      ]_vars

\* With the thread: the configuration was reloaded with another directory,
\* a rotation installed a second log file, all blocks of the pipe are in the
\* two files and the collector has exited.
C28_Witness ==
    /\ WIN32
    /\ pc = "done"
    /\ exit_code = 0
    /\ ~WriteFailed
    /\ currentLogDir # InitialConfig.dir
    /\ Len(disk) >= 2
    /\ PipeData(disk[1].data) # <<>>
    /\ PipeData(disk[2].data) # <<>>
    /\ PipeData(ConcatFiles(disk)) = [i \in 1..MaxBlocks |-> i]

(***************************************************************************)
(* C29  The end of the data-transfer thread (WIN32).                       *)
(***************************************************************************)
\* The thread is in its read loop: at ReadFile or inside
\* write_syslogger_file.
InReadLoop == wpc \in {"read", "enter", "write", "report"}

\* ReadFile finds the pipe empty and its write end closed by every process:
\* ERROR_HANDLE_EOF or ERROR_BROKEN_PIPE.
PipeAtEOF == pipe = <<>> /\ writers = 0

\* Every block the thread has read was handed to fwrite, which unless a
\* write fell short has put it into a log file.
ChunksHandedOver ==
    /\ Unwritten = <<>>
    /\ wpc \notin {"enter", "write", "report"}
    /\ ~WriteFailed => DataBlocks(disk) = Range(BytesRead)

\* C29: the thread leaves its read loop only from a ReadFile that found
\* pipe EOF; a ReadFile that fails otherwise is reported and the thread is
\* at ReadFile again; pipe_eof_seen is set by the thread alone, after the
\* loop, in its last step, every chunk it has read having been handed to
\* fwrite; so whenever pipe_eof_seen is set the thread has ended, nothing
\* is left in the pipe, and no block it has read is unwritten.
C29_ThreadTermination ==
    /\ [](WIN32 =>
             /\ pipe_eof_seen =>
                    (wpc = "exit" /\ PipeAtEOF /\ ChunksHandedOver)
             /\ wpc = "eof" => (PipeAtEOF /\ ChunksHandedOver))
    /\ [][WIN32 =>
             /\ (InReadLoop /\ ~InReadLoop') =>
                    /\ wpc = "read" /\ wpc' = "eof"
                    /\ PipeAtEOF
                    /\ UNCHANGED <<disk, pipe, pipe_eof_seen, pc>>
             /\ (wpc = "read" /\ faults' # faults /\ pc' = pc) =>
                    /\ Appended = <<MSG_READ_FAILED>>
                    /\ wpc' = "read"
                    /\ UNCHANGED <<pipe, pipe_eof_seen, logbuffer>>
             /\ pipe_eof_seen' # pipe_eof_seen =>
                    /\ wpc = "eof" /\ wpc' = "exit"
                    /\ pipe_eof_seen'
                    /\ UNCHANGED <<disk, pipe, pc>>
             /\ wpc = "exit" => wpc' = "exit"
             /\ wpc = "eof" => wpc' \in {"eof", "exit"}
          ]_vars

\* A ReadFile failed and was reported, the thread read on, wrote every
\* block of the pipe, found pipe EOF, set pipe_eof_seen and ended; the main
\* loop has not yet looked at pipe_eof_seen.
C29_Witness ==
    /\ WIN32
    /\ pipe_eof_seen
    /\ wpc = "exit"
    /\ pc = "wait"
    /\ ~WriteFailed
    /\ MSG_READ_FAILED \in Range(ConcatFiles(disk))
    /\ DataBlocks(disk) = 1..MaxBlocks

(***************************************************************************)
(* C30  A rotation whose fopen fails, and its retry.                       *)
(***************************************************************************)
\* logfile_rotate returns from its failed fopen.
OpenFailedStep == pc = "rotate" /\ pc' = "wait"

\* The age or the size of the current file asks for a rotation, at the
\* clock reading t.
TriggerAt(t) ==
    \/ last_rotation_time # 0 /\ Log_RotationAge > 0 /\ AgeTrigger(t)
    \/ SizeTrigger
Triggered == TriggerAt(now)

\* The latest fopen of a rotation failed, for want of descriptors, and the
\* age or size still asks for a rotation.
RetryDue == pc = "wait" /\ saveerrno \in FdExhaustion /\ Triggered

\* C30: a rotation whose fopen fails leaves the current file and
\* last_rotation_time as they are, and if it failed with ENFILE or EMFILE
\* the rotation parameters too; the age or size trigger, once true, stays
\* true while these are unchanged; every iteration's checks that find it
\* true call logfile_rotate, which calls fopen again; so, under
\* ShutdownSpec (the main loop keeps being scheduled), after a failure for
\* want of descriptors with the trigger true the collector is in
\* logfile_rotate again, unless it exits first.
C30_FailedRotationRetried ==
    /\ [][/\ OpenFailedStep =>
                 /\ UNCHANGED <<syslogFile, last_rotation_time, currentLogDir>>
                 /\ Len(disk') = Len(disk)
                 /\ saveerrno' \in OpenErrnos
                 /\ saveerrno' \in FdExhaustion =>
                        /\ UNCHANGED gucVars
                        /\ Appended = <<MSG_OPEN_FAILED>>
          /\ (Triggered /\ UNCHANGED <<gucVars, syslogFile, last_rotation_time>>)
                 => Triggered'
          /\ (pc = "check" /\ pc' # "check" /\ (Triggered')) => pc' = "rotate"
          /\ (pc = "rotate" /\ pc' # "rotate") =>
                 \/ pc' = "swap" /\ fh' # "" /\ FileExists(disk', fh')
                 \/ OpenFailedStep
         ]_vars
    /\ (RetryDue ~> (pc \in {"rotate", "done"}))

\* An fopen failed for want of descriptors, the rotation was tried again
\* and the second log file is now the current one.
C30_Witness ==
    /\ Len(disk) = 2
    /\ syslogFile = disk[2].path
    /\ MSG_OPEN_FAILED \in Range(disk[1].data)
    /\ MSG_DISABLING \notin Range(ConcatFiles(disk))
    /\ last_rotation_time > StartTime

(***************************************************************************)
(* C31  The minimum interval of rotation by age.                           *)
(***************************************************************************)
\* The instant in the name of the current file: that of the collector's
\* start or of the latest rotation whose fopen succeeded.
CurrentFileInstant ==
    CHOOSE t \in Instants :
        IsTimestampOf(SubSeq(syslogFile, Len(syslogFile) - 20,
                             Len(syslogFile) - 4), t)

\* The loop's checks ask for a rotation that no reload requested and the
\* size of the current file does not ask for: a rotation by age.
TimeTriggeredAttempt ==
    /\ pc = "check"
    /\ pc' = "rotate"
    /\ ~rotation_requested
    /\ ~SizeTrigger

\* C31: a rotation by age is attempted only with Log_RotationAge > 0 and
\* only when the clock shows at least Log_RotationAge * 60 seconds more
\* than at the collector's start and than at the latest successful
\* rotation; none at the instant of the start.
C31_MinimumInterval ==
    [][TimeTriggeredAttempt =>
           /\ Log_RotationAge > 0
           /\ now' >= StartTime + Log_RotationAge * SECS_PER_MINUTE
           /\ now' >= CurrentFileInstant + Log_RotationAge * SECS_PER_MINUTE
      ]_vars

\* A reload forced a rotation towards the end of the first minute; the
\* rotation by age came a minute after that one, not a minute after the
\* start, and installed the third log file.
C31_Witness ==
    /\ Len(disk) = 3
    /\ syslogFile = disk[3].path
    /\ sighups_left = 0
    /\ faults = 0
    /\ Log_RotationAge > 0
    /\ last_rotation_time = StartTime + 2 * SECS_PER_MINUTE - 1
    /\ IsTimestampOf(SubSeq(disk[2].path, Len(disk[2].path) - 20,
                            Len(disk[2].path) - 4),
                     StartTime + SECS_PER_MINUTE - 1)

(***************************************************************************)
(* C32  currentLogDir and the directory of the current file.               *)
(***************************************************************************)
\* The main loop is past the reload, the checks and logfile_rotate of its
\* iteration.
IterationEnds == pc \in {"wait", "eofcheck"}

\* C32: at the end of every iteration of the main loop the current file
\* lies in the directory currentLogDir names, whatever the reloads and
\* whatever the outcome of the rotations they forced.
C32_DirectorySnapshot == IterationEnds => InCurrentDir

(***************************************************************************)
(* C33  The postmaster's handle of the log file.                           *)
(***************************************************************************)
\* The descriptors of the postmaster that refer to a log file.
PostmasterLogfiles ==
    {fd \in Descriptors : IsLogfile(fds["postmaster"][fd])}

\* C33: whenever the postmaster is not inside SysLogger_Start - before the
\* first call and after every return, whether a collector was started, the
\* fork failed or redirect_stderr is off - its syslogFile is unset and none
\* of its descriptors refers to a log file.
C33_NoLogfileKept ==
    spc = "idle" =>
        /\ syslogFile_fd["postmaster"] = NoFile
        /\ PostmasterLogfiles = {}

=============================================================================
